---- MODULE Spec2Model ----
(***************************************************************************)
(* A model of the API gateway of dhekaag/golang-microservices: the session *)
(* store client, the credential extraction, the middleware chain and the   *)
(* route handlers of the gateway, the reverse proxy's Director, and the    *)
(* gateway's sliding-window rate limiter.                                  *)
(*                                                                         *)
(* Specifications:                                                         *)
(*   Spec    one request at a time through Router.SetupRoutes' handler     *)
(*           chain, against the session store, with a clock                *)
(*   SpecConc two concurrent requests of one user through the same chain   *)
(*           (login, me, logout, refresh, logout-all, a docs call)         *)
(*   SpecPanic as Spec, where any layer beneath Recovery may panic         *)
(*   SpecRL  concurrent RateLimit/RateLimiter.Allow calls                  *)
(*   SpecAllow the body of each rate limiter's Allow applied to one input  *)
(*   SpecMW  concurrent middleware.RateLimit/RateLimiter.Allow calls of    *)
(*           the shared package                                            *)
(*   SpecDS  one SessionManager.DeleteSessions call, key by key, over      *)
(*           stores that hold the sessions of several users                *)
(*   SpecTables as Spec, for a gateway started with a target URL that does *)
(*           not parse                                                     *)
(*   SpecAdmin one request through SessionAuthMiddleware(AdminMiddleware)  *)
(*   SpecRLFair SpecRL under fair scheduling of the Allow calls            *)
(*   SpecUsers two goroutines of the user service serving registrations,   *)
(*           profile updates, deletions, password changes, e-mail          *)
(*           verifications and logins on tbl_users, statement by statement *)
(*   SpecHealth a health check, probe by probe, next to another client's   *)
(*           requests                                                      *)
(***************************************************************************)
EXTENDS Integers, Sequences, FiniteSets, TLC

VARIABLES
  clock,       \* the wall clock (time.Now()), in ticks
  \* ---- gateway: session store and the request in progress ----
  store,       \* the Redis session keys: session id -> [val, exp], live keys only
  issued,      \* history: the session ids GenerateSessionID has returned, each with
               \* the login's data, whether a Logout has deleted it, and the expiry
               \* its latest successful resolution set
  req,         \* the inbound request being served, or NoReq
  h,           \* the position of the handler chain serving req
  resp,        \* what has been written to the client, and what was sent upstream
  lookups,     \* history: the outcome of every ValidateSession call made for req
  services,    \* ServiceProxy.services: the targets that have a reverse proxy
  \* ---- gateway rate limiter (unnamed/part_001) ----
  rlLimit,     \* RateLimiter.limit
  rlWindow,    \* RateLimiter.window, in ticks
  rlClients,   \* RateLimiter.clients: client id -> Client.requests
  rlMutex,     \* holder of RateLimiter.mutex, or "free"
  clMutex,     \* client id -> holder of Client.mutex, or "free"
  rlPc,        \* worker -> position inside RateLimit / Allow
  rlArg,       \* worker -> clientID of the call in progress
  rlNow,       \* worker -> the local `now` of Allow
  rlLast,      \* worker -> outcome of the worker's latest Allow body
  rlStatus,    \* worker -> what RateLimit answered: 0 none yet, 429, or 200 (next served)
  rlAdmitted,  \* history: client id -> every timestamp ever admitted, in order
  rlCalls,     \* history: number of Allow calls started
  \* ---- shared packages (shared/pkg) ----
  ds,          \* the SessionManager.DeleteSessions call in progress, or DSIdle
  al,          \* one Allow body applied to one input: the input and the outcome
  mw,          \* middleware.RateLimiter of RateLimit(maxRequests, window): the
               \* requests map, and history (every timestamp admitted, per client)
  mwCall,      \* worker -> position and locals inside middleware.RateLimiter.Allow
  am,          \* one request through SessionAuthMiddleware(AdminMiddleware(next)):
               \* the position, the request context and the answer
  us           \* the user service: tbl_users, the number of writes it has served,
               \* and the answer of its latest /auth/login

rlVars == <<rlLimit, rlWindow, rlClients, rlMutex, clMutex, rlPc, rlArg, rlNow,
            rlLast, rlStatus, rlAdmitted, rlCalls>>

mwVars == <<al, mw, mwCall>>

pkgVars == <<ds, mwVars, am, us>>

gwVars == <<store, issued, req, h, resp, lookups, services>>

vars == <<clock, gwVars, rlVars, services, pkgVars>>

(***************************************************************************)
(* Bounds                                                                  *)
(***************************************************************************)
MaxClock == 2
MaxLimit == 2
MaxWindow == 2
MaxCalls == 4
SessionTTL == 2
MaxSessionClock == 2
MaxSeqLen == 3
MaxMwCalls == 3
MaxUserOps == 2

(***************************************************************************)
(* Strings (Go's strings package)                                          *)
(***************************************************************************)
HasPrefix(s, p) == Len(p) <= Len(s) /\ SubSeq(s, 1, Len(p)) = p

TrimPrefix(s, p) == IF HasPrefix(s, p) THEN SubSeq(s, Len(p) + 1, Len(s)) ELSE s

Contains(s, sub) ==
  \E i \in 1..(Len(s) - Len(sub) + 1) : SubSeq(s, i, i + Len(sub) - 1) = sub

(***************************************************************************)
(* Clock                                                                   *)
(***************************************************************************)
Tick ==
  /\ clock < MaxClock
  /\ clock' = clock + 1

(***************************************************************************)
(* Gateway rate limiter: RateLimiter.Allow and the RateLimit middleware    *)
(***************************************************************************)
RLWorkers == {"w1", "w2"}
ClientIDs == {"A", "B"}
Free == "free"
NoCall == [client |-> "", now |-> 0, ok |-> FALSE, kept |-> 0, before |-> 0, seen |-> <<>>]

\* (mutation of LockFree: Lock never waits)
LockNeverWaits(holder) == TRUE

\* sync.Mutex.Lock returns once the mutex is unlocked
LockFree(holder) == holder = Free

StatusTooManyRequests == 429
StatusOK == 200
StatusCreated == 201

\* (mutation of After: the cutoff itself counts as after)
AfterOrEqual(t, cutoff) == t >= cutoff

\* time.Time.After
After(t, cutoff) == t > cutoff

\* (mutation of Prune: nothing is pruned)
PruneNothing(requests, cutoff) == requests

\* the pruning loop of Allow: keep the requests after the cutoff
Prune(requests, cutoff) == SelectSeq(requests, LAMBDA t : After(t, cutoff))

\* (mutation of AtLimit: the check off by one)
AtLimitOffByOne(n, limit) == n > limit

\* the admission check of Allow: len(client.requests) >= rl.limit
AtLimit(n, limit) == n >= limit

\* the body of Allow as one function of the requests it found: prune, check, append
AllowBody(requests, now, limit, window) ==
  LET kept == Prune(requests, now - window)
  IN  IF AtLimit(Len(kept), limit)
      THEN [ok |-> FALSE, requests |-> kept, kept |-> Len(kept)]
      ELSE [ok |-> TRUE, requests |-> Append(kept, now), kept |-> Len(kept)]

\* RateLimit: the middleware calls limiter.Allow(clientIP)
RLCall(w, c) ==
  /\ rlPc[w] = "idle"
  /\ rlCalls < MaxCalls
  /\ rlPc' = [rlPc EXCEPT ![w] = "lock_rl"]
  /\ rlArg' = [rlArg EXCEPT ![w] = c]
  /\ rlStatus' = [rlStatus EXCEPT ![w] = 0]
  /\ rlNow' = [rlNow EXCEPT ![w] = 0]
  /\ rlLast' = [rlLast EXCEPT ![w] = NoCall]
  /\ rlCalls' = rlCalls + 1
  /\ UNCHANGED <<gwVars, pkgVars>>
  /\ UNCHANGED <<clock, rlLimit, rlWindow, rlClients, rlMutex, clMutex, rlAdmitted>>

\* rl.mutex.Lock(); the lookup or creation of rl.clients[clientID]
RLLock(w) ==
  /\ rlPc[w] = "lock_rl"
  /\ LockFree(rlMutex)
  /\ rlMutex' = w
  /\ IF rlArg[w] \in DOMAIN rlClients
     THEN UNCHANGED <<rlClients, clMutex>>
     ELSE /\ rlClients' = [c \in DOMAIN rlClients \cup {rlArg[w]} |->
                             IF c = rlArg[w] THEN <<>> ELSE rlClients[c]]
          /\ clMutex' = [c \in DOMAIN clMutex \cup {rlArg[w]} |->
                           IF c = rlArg[w] THEN Free ELSE clMutex[c]]
  /\ rlPc' = [rlPc EXCEPT ![w] = "lock_client"]
  /\ UNCHANGED <<gwVars, pkgVars>>
  /\ UNCHANGED <<clock, rlLimit, rlWindow, rlArg, rlNow, rlLast, rlStatus,
                 rlAdmitted, rlCalls>>

\* client.mutex.Lock(); now := time.Now()
\* (rlLast.seen: history, the client's requests as the call found them)
RLLockClient(w) ==
  /\ rlPc[w] = "lock_client"
  /\ LockFree(clMutex[rlArg[w]])
  /\ clMutex' = [clMutex EXCEPT ![rlArg[w]] = w]
  /\ rlNow' = [rlNow EXCEPT ![w] = clock]
  /\ rlLast' = [rlLast EXCEPT ![w].seen = rlClients[rlArg[w]]]
  /\ rlPc' = [rlPc EXCEPT ![w] = "prune"]
  /\ UNCHANGED <<gwVars, pkgVars>>
  /\ UNCHANGED <<clock, rlLimit, rlWindow, rlClients, rlMutex, rlArg,
                 rlStatus, rlAdmitted, rlCalls>>

\* the pruning loop: client.requests = newRequests
RLPrune(w) ==
  /\ rlPc[w] = "prune"
  /\ rlClients' = [rlClients EXCEPT ![rlArg[w]] = Prune(@, rlNow[w] - rlWindow)]
  /\ rlPc' = [rlPc EXCEPT ![w] = "check"]
  /\ UNCHANGED <<gwVars, pkgVars>>
  /\ UNCHANGED <<clock, rlLimit, rlWindow, rlMutex, clMutex, rlArg, rlNow, rlLast,
                 rlStatus, rlAdmitted, rlCalls>>

\* the admission check: return false at the limit
RLCheck(w) ==
  /\ rlPc[w] = "check"
  /\ LET c == rlArg[w]
         full == AtLimit(Len(rlClients[c]), rlLimit)
     IN /\ rlLast' = [rlLast EXCEPT ![w] =
             [client |-> c, now |-> rlNow[w], ok |-> ~full, kept |-> Len(rlClients[c]),
              before |-> Len(rlAdmitted[c]), seen |-> @.seen]]
        /\ rlPc' = [rlPc EXCEPT ![w] = IF full THEN "unlock" ELSE "append"]
  /\ UNCHANGED <<gwVars, pkgVars>>
  /\ UNCHANGED <<clock, rlLimit, rlWindow, rlClients, rlMutex, clMutex, rlArg, rlNow,
                 rlStatus, rlAdmitted, rlCalls>>

\* client.requests = append(client.requests, now); return true
RLAppend(w) ==
  /\ rlPc[w] = "append"
  /\ rlClients' = [rlClients EXCEPT ![rlArg[w]] = Append(@, rlNow[w])]
  /\ rlAdmitted' = [rlAdmitted EXCEPT ![rlArg[w]] = Append(@, rlNow[w])]
  /\ rlPc' = [rlPc EXCEPT ![w] = "unlock"]
  /\ UNCHANGED <<gwVars, pkgVars>>
  /\ UNCHANGED <<clock, rlLimit, rlWindow, rlMutex, clMutex, rlArg, rlNow, rlLast,
                 rlStatus, rlCalls>>

\* (mutation of RLReturn: the return at the limit leaves the client mutex locked)
RLReturnRejectedKeepsLock(w) ==
  /\ rlPc[w] = "unlock"
  /\ clMutex' = [clMutex EXCEPT ![rlArg[w]] = IF rlLast[w].ok THEN Free ELSE @]
  /\ rlMutex' = Free
  /\ rlPc' = [rlPc EXCEPT ![w] = "answer"]
  /\ UNCHANGED <<gwVars, pkgVars>>
  /\ UNCHANGED <<clock, rlLimit, rlWindow, rlClients, rlArg, rlNow, rlLast,
                 rlStatus, rlAdmitted, rlCalls>>

\* Allow returns: the deferred client.mutex.Unlock() and rl.mutex.Unlock() run,
\* nothing else between them; RateLimit has not answered yet
RLReturn(w) ==
  /\ rlPc[w] = "unlock"
  /\ clMutex' = [clMutex EXCEPT ![rlArg[w]] = Free]
  /\ rlMutex' = Free
  /\ rlPc' = [rlPc EXCEPT ![w] = "answer"]
  /\ UNCHANGED <<gwVars, pkgVars>>
  /\ UNCHANGED <<clock, rlLimit, rlWindow, rlClients, rlArg, rlNow, rlLast,
                 rlStatus, rlAdmitted, rlCalls>>

\* RateLimit with the value Allow returned: the rate-limit headers and SendError
\* 429, or next.ServeHTTP
RLAnswer(w) ==
  /\ rlPc[w] = "answer"
  /\ rlStatus' = [rlStatus EXCEPT ![w] =
       IF rlLast[w].ok THEN StatusOK ELSE StatusTooManyRequests]
  /\ rlPc' = [rlPc EXCEPT ![w] = "idle"]
  /\ UNCHANGED <<gwVars, pkgVars>>
  /\ UNCHANGED <<clock, rlLimit, rlWindow, rlClients, rlMutex, clMutex, rlArg, rlNow,
                 rlLast, rlAdmitted, rlCalls>>

RLTick == Tick /\ UNCHANGED <<gwVars, rlVars, services, pkgVars>>

(***************************************************************************)
(* Shared rate limiter: middleware.RateLimiter.Allow and RateLimit         *)
(***************************************************************************)
\* now.Sub(req) < window
MwValid(t, now, window) == now - t < window

\* the cleaning loop of Allow: validRequests
MwClean(requests, now, window) ==
  SelectSeq(requests, LAMBDA t : MwValid(t, now, window))

\* the body of Allow as one function of the requests it found: clean, check, append
MwAllowBody(requests, now, maxRequests, window) ==
  LET kept == MwClean(requests, now, window)
  IN  IF Len(kept) >= maxRequests
      THEN [ok |-> FALSE, requests |-> kept, kept |-> Len(kept)]
      ELSE [ok |-> TRUE, requests |-> Append(kept, now), kept |-> Len(kept)]

\* rl.requests[clientIP]: a missing key reads as the nil slice
MwRequests(c) == IF c \in DOMAIN mw.requests THEN mw.requests[c] ELSE <<>>

\* rl.requests[clientIP] = v
MwStore(c, v) ==
  [x \in DOMAIN mw.requests \cup {c} |-> IF x = c THEN v ELSE mw.requests[x]]

\* NewRateLimiter inside RateLimit(maxRequests, window)
\* (mw.admitted, mw.calls: history; mw.fatal: the runtime has stopped the process)
MwIdle(maxRequests, window) ==
  [maxRequests |-> maxRequests, window |-> window, requests |-> <<>>,
   admitted |-> [c \in ClientIDs |-> <<>>], calls |-> 0, fatal |-> FALSE]

MwNoCall == [pc |-> "idle", client |-> "", now |-> 0, local |-> <<>>, status |-> 0]

\* the positions of Allow at which the next statement writes the map, and reads it
MwWritePcs == {"store", "put"}
MwReadPcs == {"clean", "check", "append"}

\* RateLimit: limiter.Allow(clientIP, maxRequests, window); now := time.Now()
MwCall(w, c) ==
  /\ ~mw.fatal
  /\ mwCall[w].pc = "idle"
  /\ mw.calls < MaxMwCalls
  /\ mwCall' = [mwCall EXCEPT ![w] = [MwNoCall EXCEPT !.pc = "clean", !.client = c,
                                                      !.now = clock]]
  /\ mw' = [mw EXCEPT !.calls = @ + 1]
  /\ UNCHANGED <<clock, gwVars, rlVars, am, us, ds, al>>

\* requests, exists := rl.requests[clientIP]; the loop that builds validRequests
MwCleanRead(w) ==
  /\ ~mw.fatal
  /\ mwCall[w].pc = "clean"
  /\ LET c == mwCall[w].client
     IN  mwCall' = [mwCall EXCEPT ![w] =
           IF c \in DOMAIN mw.requests
           THEN [@ EXCEPT !.pc = "store",
                          !.local = MwClean(mw.requests[c], mwCall[w].now, mw.window)]
           ELSE [@ EXCEPT !.pc = "check"]]
  /\ UNCHANGED <<clock, gwVars, rlVars, am, us, ds, al, mw>>

\* rl.requests[clientIP] = validRequests
MwCleanWrite(w) ==
  /\ ~mw.fatal
  /\ mwCall[w].pc = "store"
  /\ mw' = [mw EXCEPT !.requests = MwStore(mwCall[w].client, mwCall[w].local)]
  /\ mwCall' = [mwCall EXCEPT ![w].pc = "check"]
  /\ UNCHANGED <<clock, gwVars, rlVars, am, us, ds, al>>

\* if len(rl.requests[clientIP]) >= maxRequests { return false }
MwCheck(w) ==
  /\ ~mw.fatal
  /\ mwCall[w].pc = "check"
  /\ mwCall' = [mwCall EXCEPT ![w] =
       IF Len(MwRequests(mwCall[w].client)) >= mw.maxRequests
       THEN [@ EXCEPT !.pc = "return", !.status = StatusTooManyRequests]
       ELSE [@ EXCEPT !.pc = "append"]]
  /\ UNCHANGED <<clock, gwVars, rlVars, am, us, ds, al, mw>>

\* append(rl.requests[clientIP], now): the read of the map
MwAppendRead(w) ==
  /\ ~mw.fatal
  /\ mwCall[w].pc = "append"
  /\ mwCall' = [mwCall EXCEPT ![w] =
       [@ EXCEPT !.pc = "put", !.local = MwRequests(mwCall[w].client)]]
  /\ UNCHANGED <<clock, gwVars, rlVars, am, us, ds, al, mw>>

\* rl.requests[clientIP] = append(...); return true
MwAppendWrite(w) ==
  /\ ~mw.fatal
  /\ mwCall[w].pc = "put"
  /\ LET c == mwCall[w].client
     IN  mw' = [mw EXCEPT !.requests = MwStore(c, Append(mwCall[w].local, mwCall[w].now)),
                          !.admitted[c] = Append(@, mwCall[w].now)]
  /\ mwCall' = [mwCall EXCEPT ![w] = [@ EXCEPT !.pc = "return", !.status = StatusOK]]
  /\ UNCHANGED <<clock, gwVars, rlVars, am, us, ds, al>>

\* RateLimit answers 429 or serves next
MwReturn(w) ==
  /\ ~mw.fatal
  /\ mwCall[w].pc = "return"
  /\ mwCall' = [mwCall EXCEPT ![w].pc = "idle"]
  /\ UNCHANGED <<clock, gwVars, rlVars, am, us, ds, al, mw>>

\* two goroutines in the map at once, one of them writing: the runtime may stop
\* the process (fatal error: concurrent map writes / read and map write)
MwFatal ==
  /\ ~mw.fatal
  /\ \E w1, w2 \in RLWorkers :
       /\ w1 # w2
       /\ mwCall[w1].pc \in MwWritePcs
       /\ mwCall[w2].pc \in MwWritePcs \cup MwReadPcs
  /\ mw' = [mw EXCEPT !.fatal = TRUE]
  /\ UNCHANGED <<clock, gwVars, rlVars, am, us, ds, al, mwCall>>

MwTick == Tick /\ ~mw.fatal /\ UNCHANGED <<gwVars, rlVars, pkgVars>>

(***************************************************************************)
(* The body of each limiter's Allow, applied to one input                  *)
(***************************************************************************)
\* the sequences a limiter can hold at time now: timestamps in the order they
\* were appended, none later than now
RequestSeqs(n, now) ==
  {q \in UNION {[1..k -> 0..now] : k \in 0..n} :
     \A i \in 1..(Len(q) - 1) : q[i] <= q[i + 1]}

NoOutcome == [ok |-> FALSE, requests |-> <<>>, kept |-> 0]

AllowInput(requests, now, limit, window) ==
  [pc |-> "input", requests |-> requests, now |-> now, limit |-> limit,
   window |-> window, out |-> NoOutcome]

\* the gateway limiter's Allow on the client's requests; the limiter never holds
\* more than limit requests of a client
AllowGateway ==
  /\ al.pc = "input"
  /\ Len(al.requests) <= al.limit
  /\ al' = [al EXCEPT !.pc = "gateway",
                      !.out = AllowBody(al.requests, al.now, al.limit, al.window)]
  /\ UNCHANGED <<clock, gwVars, rlVars, am, us, ds, mw, mwCall>>

\* the shared limiter's Allow on the client's requests
AllowShared ==
  /\ al.pc = "input"
  /\ al' = [al EXCEPT !.pc = "shared",
                      !.out = MwAllowBody(al.requests, al.now, al.limit, al.window)]
  /\ UNCHANGED <<clock, gwVars, rlVars, am, us, ds, mw, mwCall>>

(***************************************************************************)
(* HTTP requests and headers                                               *)
(***************************************************************************)
GwWorkers == {"g1", "g2"}
\* the ids utils.GenerateSessionID returns during a run
SessionIDs == {"s1"}

StatusMovedPermanently == 301
StatusBadRequest == 400
StatusUnauthorized == 401
StatusForbidden == 403
StatusNotFound == 404
StatusMethodNotAllowed == 405
StatusRequestTimeout == 408
StatusConflict == 409
StatusUnprocessableEntity == 422
StatusInternalServerError == 500
StatusNotImplemented == 501
StatusBadGateway == 502
StatusServiceUnavailable == 503
StatusGatewayTimeout == 504

\* http.Header: Get, Set, Del (an absent header reads as "")
HGet(hd, k) == IF k \in DOMAIN hd THEN hd[k] ELSE ""
HSet(hd, k, v) == [x \in DOMAIN hd \cup {k} |-> IF x = k THEN v ELSE hd[x]]
HDel(hd, k) == [x \in DOMAIN hd \ {k} |-> hd[x]]

\* http.Request.Cookie(name) on a Cookie header holding one "name=value" pair;
\* ok = FALSE is http.ErrNoCookie
ReqCookie(r, name) ==
  LET c == HGet(r.headers, "Cookie")
  IN  IF HasPrefix(c, name \o "=")
      THEN [ok |-> TRUE, value |-> TrimPrefix(c, name \o "=")]
      ELSE [ok |-> FALSE, value |-> ""]

(***************************************************************************)
(* The errors package: AppError and the response envelope                  *)
(***************************************************************************)
\* (mutation of NewAppError: a status the switch does not list is passed through)
NewAppErrorNoDefault(statusCode) ==
  [code |-> "", status |-> statusCode]

\* the AppError utils.SendError builds for a status code: the constructor of the
\* matching case, errors.NewInternalServerError for any other status
NewAppError(statusCode) ==
  CASE statusCode = StatusBadRequest -> [code |-> "BAD_REQUEST", status |-> StatusBadRequest]
    [] statusCode = StatusUnauthorized ->
         [code |-> "UNAUTHORIZED", status |-> StatusUnauthorized]
    [] statusCode = StatusForbidden -> [code |-> "FORBIDDEN", status |-> StatusForbidden]
    [] statusCode = StatusNotFound -> [code |-> "NOT_FOUND", status |-> StatusNotFound]
    [] statusCode = StatusMethodNotAllowed ->
         [code |-> "METHOD_NOT_ALLOWED", status |-> StatusMethodNotAllowed]
    [] statusCode = StatusConflict -> [code |-> "CONFLICT", status |-> StatusConflict]
    [] statusCode = StatusUnprocessableEntity ->
         [code |-> "UNPROCESSABLE_ENTITY", status |-> StatusUnprocessableEntity]
    [] statusCode = StatusTooManyRequests ->
         [code |-> "TOO_MANY_REQUESTS", status |-> StatusTooManyRequests]
    [] statusCode = StatusRequestTimeout ->
         [code |-> "REQUEST_TIMEOUT", status |-> StatusRequestTimeout]
    [] statusCode = StatusInternalServerError ->
         [code |-> "INTERNAL_SERVER_ERROR", status |-> StatusInternalServerError]
    [] statusCode = StatusNotImplemented ->
         [code |-> "NOT_IMPLEMENTED", status |-> StatusNotImplemented]
    [] statusCode = StatusBadGateway -> [code |-> "BAD_GATEWAY", status |-> StatusBadGateway]
    [] statusCode = StatusServiceUnavailable ->
         [code |-> "SERVICE_UNAVAILABLE", status |-> StatusServiceUnavailable]
    [] statusCode = StatusGatewayTimeout ->
         [code |-> "GATEWAY_TIMEOUT", status |-> StatusGatewayTimeout]
    [] OTHER -> [code |-> "INTERNAL_SERVER_ERROR", status |-> StatusInternalServerError]

\* the JSON body: APIResponse.Status and APIResponse.Error (Message is always there)
NoEnvelope == [status |-> "", error |-> ""]
\* errors.WriteErrorResponse
ErrorEnvelope(appErr) == [status |-> "error", error |-> appErr.code]
\* errors.WriteSuccessResponse
SuccessEnvelope == [status |-> "success", error |-> ""]

(***************************************************************************)
(* Credential extraction                                                   *)
(***************************************************************************)
\* (mutation of ExtractSessionIDFromRequest: the headers are tried before the cookie)
ExtractSessionIDHeadersFirst(r) ==
  LET cookie == ReqCookie(r, "session_id")
      authHeader == HGet(r.headers, "Authorization")
  IN  IF authHeader # "" /\ Len(authHeader) > 7 /\ SubSeq(authHeader, 1, 7) = "Bearer "
      THEN SubSeq(authHeader, 8, Len(authHeader))
      ELSE IF HGet(r.headers, "X-Session-ID") # "" THEN HGet(r.headers, "X-Session-ID")
      ELSE IF cookie.ok THEN cookie.value ELSE ""

\* gateway.extractSessionIDFromRequest
ExtractSessionIDFromRequest(r) ==
  LET cookie == ReqCookie(r, "session_id")
      authHeader == HGet(r.headers, "Authorization")
  IN  IF cookie.ok /\ cookie.value # "" THEN cookie.value
      ELSE IF authHeader # "" /\ Len(authHeader) > 7 /\ SubSeq(authHeader, 1, 7) = "Bearer "
           THEN SubSeq(authHeader, 8, Len(authHeader))
           ELSE HGet(r.headers, "X-Session-ID")

\* Router.extractSessionID
RouterExtractSessionID(r) ==
  LET cookie == ReqCookie(r, "session_id")
      authHeader == HGet(r.headers, "Authorization")
  IN  IF cookie.ok /\ cookie.value # "" THEN cookie.value
      ELSE IF authHeader # "" /\ HasPrefix(authHeader, "Bearer ")
           THEN TrimPrefix(authHeader, "Bearer ")
           ELSE HGet(r.headers, "X-Session-ID")

\* AuthHandler.extractSessionID
AuthHandlerExtractSessionID(r) ==
  LET cookie == ReqCookie(r, "session_id")
      authHeader == HGet(r.headers, "Authorization")
  IN  IF cookie.ok /\ cookie.value # "" THEN cookie.value
      ELSE IF authHeader # "" /\ Len(authHeader) > 7 /\ SubSeq(authHeader, 1, 7) = "Bearer "
           THEN SubSeq(authHeader, 8, Len(authHeader))
           ELSE HGet(r.headers, "X-Session-ID")

(***************************************************************************)
(* User service: the login contract the gateway calls                      *)
(***************************************************************************)
USER == "USER"
ADMIN == "ADMIN"

\* the rows tbl_users starts with (password: the one its bcrypt hash verifies;
\* verified: the column email_verified)
Users ==
  { [id |-> 1, name |-> "alice", email |-> "alice@example.com", role |-> USER,
     password |-> "pw-alice", verified |-> TRUE],
    [id |-> 2, name |-> "root", email |-> "root@example.com", role |-> ADMIN,
     password |-> "pw-root", verified |-> TRUE] }

NoUser == [id |-> 0, name |-> "", email |-> "", role |-> ""]
NoRow == [id |-> 0, name |-> "", email |-> "", role |-> "", password |-> "",
          verified |-> FALSE]

\* tbl_users: its rows and the next value of the id column
InitUsers == [rows |-> Users, nextID |-> 3]

\* the requests the user service's clients send
RegisterRequests ==
  { [name |-> "mallory", email |-> "mallory@example.com", password |-> "pw-mallory",
     role |-> ""],
    [name |-> "alice", email |-> "alice@example.com", password |-> "pw-alice2",
     role |-> ADMIN] }

\* (a nil pointer of the request is <<>>)
UpdateProfileRequests ==
  { [name |-> <<>>, email |-> <<"al@example.com">>],
    [name |-> <<"alice">>, email |-> <<"alice@example.com">>],
    [name |-> <<>>, email |-> <<"root@example.com">>] }

ChangePasswordRequests ==
  { [current_password |-> "pw-alice", new_password |-> "wrong-pw"],
    [current_password |-> "wrong-pw", new_password |-> "pw-alice"] }

\* the ids of the ?id= parameter: alice, and the first row registered
UserIDs == {1, 3}

\* the goroutines of the user service that serve requests
UsWorkers == {"u1", "u2"}

\* a request of the user service between two statements: the statement it is at,
\* the domain.User it holds, the e-mail it has yet to check, and its last answer
UsNoCall == [pc |-> "idle", row |-> NoRow, email |-> <<>>, status |-> 0]

NoAnswer == [status |-> 0, success |-> FALSE, data |-> NoUser]

\* the user service after its migration: the seeded rows, nothing served
\* (ops: the requests received; answer: the last answer of /auth/login)
UsIdle ==
  [tbl |-> InitUsers, ops |-> 0, call |-> [w \in UsWorkers |-> UsNoCall],
   answer |-> NoAnswer]

\* the handler answers: utils.SendError / utils.SendSuccess
UsAnswer(u, w, status) == [u EXCEPT !.call[w] = [UsNoCall EXCEPT !.status = status]]

\* the handler goes on to its next statement
UsGoTo(u, w, pc, row, email) ==
  [u EXCEPT !.call[w] = [pc |-> pc, row |-> row, email |-> email, status |-> 0]]

\* a request is received by an idle goroutine
UsAccepts(u, w) == u.call[w].pc = "idle" /\ u.ops < MaxUserOps
UsReceived(u) == [u EXCEPT !.ops = @ + 1]

\* userRepository.GetByID: the row, or NoRow for "user not found" and for an error
GetByID(tbl, id, fault) ==
  IF ~fault /\ \E o \in tbl.rows : o.id = id
  THEN CHOOSE o \in tbl.rows : o.id = id
  ELSE NoRow

\* userRepository.Create: INSERT; the unique index on email refuses a second row
\* of an address, and the id the refused INSERT had drawn is not given again
Create(tbl, row) ==
  IF \E o \in tbl.rows : o.email = row.email
  THEN [err |-> TRUE, tbl |-> [tbl EXCEPT !.nextID = @ + 1]]
  ELSE [err |-> FALSE,
        tbl |-> [rows |-> tbl.rows \cup {[row EXCEPT !.id = tbl.nextID]},
                 nextID |-> tbl.nextID + 1]]

\* userRepository.Update, the first statement of db.Save: UPDATE of every column of
\* the value it is given, WHERE id. The unique index on email refuses an address
\* another row holds; affected: a row matched (the UPDATE sets updated_at, so a
\* matched row counts as changed)
Save(tbl, row) ==
  LET taken == {o \in tbl.rows : o.id # row.id /\ o.email = row.email}
  IN  IF \E o \in tbl.rows : o.id = row.id
      THEN IF taken # {} THEN [err |-> TRUE, affected |-> FALSE, tbl |-> tbl]
           ELSE [err |-> FALSE, affected |-> TRUE,
                 tbl |-> [tbl EXCEPT !.rows = {o \in @ : o.id # row.id} \cup {row}]]
      ELSE [err |-> FALSE, affected |-> FALSE, tbl |-> tbl]

\* the second statement of db.Save, issued when the UPDATE matched no row: INSERT
\* of the value with its id, ON DUPLICATE KEY UPDATE of every other column. A row
\* that has the id by now, or else the row that holds the address, takes the
\* columns of the value; the unique index on email refuses the former when
\* another row holds the address
SaveInsert(tbl, row) ==
  LET taken == {o \in tbl.rows : o.id # row.id /\ o.email = row.email}
  IN  IF \E o \in tbl.rows : o.id = row.id
      THEN IF taken # {} THEN [err |-> TRUE, tbl |-> tbl]
           ELSE [err |-> FALSE,
                 tbl |-> [tbl EXCEPT !.rows = {o \in @ : o.id # row.id} \cup {row}]]
      ELSE [err |-> FALSE,
            tbl |-> [tbl EXCEPT !.rows =
                       IF taken # {}
                       THEN (@ \ taken) \cup {[row EXCEPT !.id = o.id] : o \in taken}
                       ELSE @ \cup {row}]]

\* UserHandler.Register, userService.Register up to ExistsByEmail: 500 when the
\* query fails, 409 when the address exists; the role defaults to USER
Register(u, w) ==
  IF ~UsAccepts(u, w) THEN {}
  ELSE {IF fault THEN UsAnswer(UsReceived(u), w, StatusInternalServerError)
        ELSE IF \E o \in u.tbl.rows : o.email = r.email
        THEN UsAnswer(UsReceived(u), w, StatusConflict)
        ELSE UsGoTo(UsReceived(u), w, "create",
                    [id |-> 0, name |-> r.name, email |-> r.email,
                     role |-> IF r.role # "" THEN r.role ELSE USER,
                     password |-> r.password, verified |-> FALSE], <<>>) :
          r \in RegisterRequests, fault \in BOOLEAN}

\* userService.Register from repo.Create: 500 "Registration failed" when the INSERT
\* is refused, 201 with the new row
RegisterCreate(u, w) ==
  IF u.call[w].pc # "create" THEN {}
  ELSE {IF fault THEN UsAnswer(u, w, StatusInternalServerError)
        ELSE LET c == Create(u.tbl, u.call[w].row)
             IN  UsAnswer([u EXCEPT !.tbl = c.tbl], w,
                          IF c.err THEN StatusInternalServerError ELSE StatusCreated) :
          fault \in BOOLEAN}

\* UserHandler.UpdateUser, userService.UpdateUser up to GetByID and the name
UpdateUser(u, w) ==
  IF ~UsAccepts(u, w) THEN {}
  ELSE {LET row == GetByID(u.tbl, id, fault)
            named == IF r.name # <<>> THEN [row EXCEPT !.name = r.name[1]] ELSE row
        IN  IF row = NoRow THEN UsAnswer(UsReceived(u), w, StatusBadRequest)
            ELSE UsGoTo(UsReceived(u), w, IF r.email # <<>> THEN "email" ELSE "save",
                        named, r.email) :
          id \in UserIDs, r \in UpdateProfileRequests, fault \in BOOLEAN}

\* userService.UpdateUser, the e-mail: GetByEmail, whose error is dropped; 400 when
\* another user holds the address, else the e-mail is set and email_verified reset
UpdateUserEmail(u, w) ==
  IF u.call[w].pc # "email" THEN {}
  ELSE {LET c == u.call[w]
            held == ~fault /\ \E o \in u.tbl.rows : o.email = c.email[1] /\ o.id # c.row.id
        IN  IF held THEN UsAnswer(u, w, StatusBadRequest)
            ELSE UsGoTo(u, w, "save",
                        [c.row EXCEPT !.email = c.email[1], !.verified = FALSE], <<>>) :
          fault \in BOOLEAN}

\* repo.Update at the end of UpdateUser, ChangePassword and VerifyEmail, with the
\* domain.User read at the start, the UPDATE of db.Save: 400 with its error, 200
\* when it wrote a row, else db.Save goes on to its INSERT
UpdateSave(u, w) ==
  IF u.call[w].pc # "save" THEN {}
  ELSE {IF fault THEN UsAnswer(u, w, StatusBadRequest)
        ELSE LET c == Save(u.tbl, u.call[w].row)
             IN  IF c.err THEN UsAnswer(u, w, StatusBadRequest)
                 ELSE IF c.affected THEN UsAnswer([u EXCEPT !.tbl = c.tbl], w, StatusOK)
                 ELSE UsGoTo(u, w, "insert", u.call[w].row, <<>>) :
          fault \in BOOLEAN}

\* repo.Update, the INSERT ... ON DUPLICATE KEY UPDATE of db.Save: 400 with its
\* error, or 200
UpdateInsert(u, w) ==
  IF u.call[w].pc # "insert" THEN {}
  ELSE {IF fault THEN UsAnswer(u, w, StatusBadRequest)
        ELSE LET c == SaveInsert(u.tbl, u.call[w].row)
             IN  UsAnswer([u EXCEPT !.tbl = c.tbl], w,
                          IF c.err THEN StatusBadRequest ELSE StatusOK) :
          fault \in BOOLEAN}

\* UserHandler.DeleteUser, userService.DeleteUser up to GetByID
DeleteUser(u, w) ==
  IF ~UsAccepts(u, w) THEN {}
  ELSE {LET row == GetByID(u.tbl, id, fault)
        IN  IF row = NoRow THEN UsAnswer(UsReceived(u), w, StatusBadRequest)
            ELSE UsGoTo(UsReceived(u), w, "delete", row, <<>>) :
          id \in UserIDs, fault \in BOOLEAN}

\* userService.DeleteUser, repo.Delete: DELETE WHERE id
DeleteUserDelete(u, w) ==
  IF u.call[w].pc # "delete" THEN {}
  ELSE {IF fault THEN UsAnswer(u, w, StatusBadRequest)
        ELSE UsAnswer([u EXCEPT !.tbl.rows = {o \in @ : o.id # u.call[w].row.id}],
                      w, StatusOK) :
          fault \in BOOLEAN}

\* UserHandler.ChangePassword, userService.ChangePassword up to the password
\* check on the row GetByID returned
ChangePassword(u, w) ==
  IF ~UsAccepts(u, w) THEN {}
  ELSE {LET row == GetByID(u.tbl, id, fault)
        IN  IF row = NoRow \/ row.password # r.current_password
            THEN UsAnswer(UsReceived(u), w, StatusBadRequest)
            ELSE UsGoTo(UsReceived(u), w, "save",
                        [row EXCEPT !.password = r.new_password], <<>>) :
          id \in UserIDs, r \in ChangePasswordRequests, fault \in BOOLEAN}

\* UserHandler.VerifyEmail, userService.VerifyEmail up to GetByID
VerifyEmail(u, w) ==
  IF ~UsAccepts(u, w) THEN {}
  ELSE {LET row == GetByID(u.tbl, id, fault)
        IN  IF row = NoRow THEN UsAnswer(UsReceived(u), w, StatusBadRequest)
            ELSE UsGoTo(UsReceived(u), w, "save", [row EXCEPT !.verified = TRUE], <<>>) :
          id \in UserIDs, fault \in BOOLEAN}

\* one statement of a request that may write tbl_users
UserWrites(u) ==
  UNION {Register(u, w) \cup RegisterCreate(u, w) \cup UpdateUser(u, w)
           \cup UpdateUserEmail(u, w) \cup UpdateSave(u, w) \cup UpdateInsert(u, w)
           \cup DeleteUser(u, w) \cup DeleteUserDelete(u, w) \cup ChangePassword(u, w)
           \cup VerifyEmail(u, w) :
         w \in UsWorkers}

\* the user service without the answers it has given
Unanswered(u) == [u EXCEPT !.call = [w \in UsWorkers |-> [@[w] EXCEPT !.status = 0]]]

\* the states of the user service its requests lead to
RECURSIVE UserStatesFrom(_, _)
UserStatesFrom(seen, frontier) ==
  IF frontier = {} THEN seen
  ELSE LET new == {Unanswered(n) : n \in UNION {UserWrites(u) : u \in frontier}} \ seen
       IN  UserStatesFrom(seen \cup new, new)

\* the tables MaxUserOps requests can leave, and those they pass through
UserTables == {u.tbl : u \in UserStatesFrom({UsIdle}, {UsIdle})}

\* the `email` rule of the validator, as far as the addresses used here go: one
\* "@", with text on both sides
IsEmail(s) ==
  \E i \in 2..(Len(s) - 1) :
    /\ SubSeq(s, i, i) = "@"
    /\ \A j \in 1..Len(s) : SubSeq(s, j, j) = "@" => j = i

\* userService.Login: the row of the e-mail, when the password verifies
Login(tbl, email, password) ==
  IF \E u \in tbl.rows : u.email = email /\ u.password = password
  THEN LET u == CHOOSE u \in tbl.rows : u.email = email /\ u.password = password
       IN  [err |-> FALSE,
            data |-> [id |-> u.id, name |-> u.name, email |-> u.email, role |-> u.role]]
  ELSE [err |-> TRUE, data |-> NoUser]

\* UserHandler.Login: the JSON answer of /auth/login (body: the request body)
UserServiceLogin(tbl, method, body) ==
  IF method # "POST"
  THEN [status |-> StatusMethodNotAllowed, success |-> FALSE, data |-> NoUser]
  ELSE IF body.kind # "json"
  THEN [status |-> StatusBadRequest, success |-> FALSE, data |-> NoUser]
  ELSE IF body.email = "" \/ ~IsEmail(body.email) \/ body.password = ""
  THEN [status |-> StatusBadRequest, success |-> FALSE, data |-> NoUser]
  ELSE LET r == Login(tbl, body.email, body.password)
       IN  IF r.err THEN [status |-> StatusUnauthorized, success |-> FALSE, data |-> NoUser]
           ELSE [status |-> StatusOK, success |-> TRUE, data |-> r.data]

\* AuthHandler.validateCredentials: err, or the UserLoginData of the answer; the
\* call is a POST of {"email", "password"} to the table of that moment
ValidateCredentials(tbl, email, password, reachable) ==
  IF ~reachable THEN [err |-> TRUE, data |-> NoUser]
  ELSE LET a == UserServiceLogin(tbl, "POST",
                  [kind |-> "json", email |-> email, password |-> password])
       IN  IF a.status # StatusOK \/ ~a.success
           THEN [err |-> TRUE, data |-> NoUser]
           ELSE [err |-> FALSE, data |-> a.data]

(***************************************************************************)
(* Session store client (SessionManager over Redis)                        *)
(***************************************************************************)
NoTime == -1
NoRec == [user_id |-> 0, name |-> "", email |-> "", role |-> "", last_seen |-> NoTime,
          ip_address |-> "", user_agent |-> ""]

\* the UserSession AuthHandler.Login builds from the UserLoginData
NewUserSession(data) ==
  [user_id |-> data.id, name |-> data.name, email |-> data.email, role |-> data.role,
   last_seen |-> NoTime, ip_address |-> "client", user_agent |-> "agent"]

\* (mutation of RedisSet: the TTL of a key that exists is kept)
RedisSetKeepTTL(st, k, v, now) ==
  [x \in DOMAIN st \cup {k} |->
     IF x = k THEN [val |-> v, exp |-> IF k \in DOMAIN st THEN st[k].exp ELSE now + SessionTTL]
     ELSE st[x]]

\* redis SET key value EX ttl (CreateSession, UpdateSession)
RedisSet(st, k, v, now) ==
  [x \in DOMAIN st \cup {k} |-> IF x = k THEN [val |-> v, exp |-> now + SessionTTL] ELSE st[x]]

\* redis DEL key (DeleteSession)
RedisDel(st, k) == [x \in DOMAIN st \ {k} |-> st[x]]

\* redis EXPIRE key ttl (ExtendSession): a missing key is no error
RedisExpire(st, k, now) ==
  [x \in DOMAIN st |-> IF x = k THEN [st[x] EXCEPT !.exp = now + SessionTTL] ELSE st[x]]

\* the keys whose TTL has run out at time now are gone
RedisPurge(st, now) ==
  LET live == {x \in DOMAIN st : st[x].exp > now}
  IN  [x \in live |-> st[x]]

\* SessionManager.DeleteSessions: every key whose record has this user id
DeleteSessions(st, userID) ==
  LET keep == {x \in DOMAIN st : st[x].val.user_id # userID}
  IN  [x \in keep |-> st[x]]

\* the orders in which redis KEYS can return a set of keys
RECURSIVE KeyOrders(_)
KeyOrders(ks) ==
  IF ks = {} THEN {<<>>}
  ELSE UNION {{<<k>> \o rest : rest \in KeyOrders(ks \ {k})} : k \in ks}

\* (mutation of UserMatches: every session is taken for the user's)
UserMatchesAny(userSession, userID) == TRUE

\* userSession.UserID == userID
UserMatches(userSession, userID) == userSession.user_id = userID

\* (mutation of IsAdmin: any valid session passes)
IsAdminAnyRole(ok, sess) == ok

\* AuthHandler.IsAdmin, given the outcome of its ValidateSession
IsAdmin(ok, sess) == ok /\ sess.role = "admin"

(***************************************************************************)
(* Routing: the session middleware's skip rule, the ServeMux, the handlers *)
(***************************************************************************)
\* skipPaths of SessionAuthMiddleware
SkipPaths ==
  <<"/health", "/api/v1/auth/login", "/api/v1/auth/register", "/api/v1/users",
    "/docs", "/api/v1/webhooks">>

\* the skip test of SessionAuthMiddleware
SkipsAuth(r) ==
  \E i \in 1..Len(SkipPaths) :
    /\ HasPrefix(r.path, SkipPaths[i])
    /\ \/ r.method = "POST"
       \/ Contains(SkipPaths[i], "health")
       \/ Contains(SkipPaths[i], "docs")
       \/ Contains(SkipPaths[i], "webhooks")

\* the patterns Router.SetupRoutes registers, each with its handler
MuxRoutes ==
  { <<"/health", "health">>, <<"/health/ready", "health">>, <<"/health/live", "health">>,
    <<"/api/v1/auth/login", "login">>, <<"/api/v1/auth/logout", "logout">>,
    <<"/api/v1/auth/me", "me">>, <<"/api/v1/auth/refresh", "refresh">>,
    <<"/api/v1/auth/logout-all", "logoutAll">>,
    <<"/api/v1/auth/register", "register">>,
    <<"/api/v1/auth/forgot-password", "forgotPassword">>,
    <<"/api/v1/auth/reset-password", "resetPassword">>,
    <<"/api/v1/users", "users">>, <<"/api/v1/users/", "users">>,
    <<"/api/v1/products", "products">>, <<"/api/v1/products/", "products">>,
    <<"/api/v1/categories", "products">>, <<"/api/v1/categories/", "products">>,
    <<"/api/v1/orders", "orders">>, <<"/api/v1/orders/", "orders">>,
    <<"/api/v1/cart", "orders">>, <<"/api/v1/cart/", "orders">>,
    <<"/api/v1/admin/", "admin">>,
    <<"/api/v1/upload", "upload">>, <<"/api/v1/upload/", "upload">>,
    <<"/api/v1/webhooks/", "webhooks">>,
    <<"/docs", "docs">>, <<"/docs/", "docs">> }

\* http.ServeMux on a clean path: a pattern ending in "/" matches the subtree, any
\* other pattern matches exactly, the longest match wins; a subtree root named
\* without its slash is redirected; anything else is not found
\* (mutation of MuxPatternMatches: every pattern matches by prefix)
MuxPatternMatchesPrefix(pattern, path) == HasPrefix(path, pattern)

MuxPatternMatches(pattern, path) ==
  IF SubSeq(pattern, Len(pattern), Len(pattern)) = "/"
  THEN HasPrefix(path, pattern)
  ELSE path = pattern

MuxMatch(path) ==
  LET hits == {rt \in MuxRoutes : MuxPatternMatches(rt[1], path)}
  IN  IF hits # {}
      THEN (CHOOSE rt \in hits : \A o \in hits : Len(o[1]) <= Len(rt[1]))[2]
      ELSE IF \E rt \in MuxRoutes : rt[1] = path \o "/"
           THEN "redirect"
           ELSE "notfound"

\* Router.isProtectedRoute
IsProtectedRoute(path, routes) ==
  \E i \in 1..Len(routes) : HasPrefix(path, routes[i])

ProtectedUserRoutes ==
  <<"/api/v1/users/profile", "/api/v1/users/change-password", "/api/v1/users/upload-avatar">>

AdminOrderRoutes ==
  <<"/api/v1/orders/admin", "/api/v1/orders/analytics", "/api/v1/orders/export">>

\* what a route handler does once its gates have passed
NoFinal == [kind |-> "", target |-> "", path |-> "", status |-> 0]
Forward(target, path) == [kind |-> "forward", target |-> target, path |-> path, status |-> 0]
Answer(status) == [kind |-> "answer", target |-> "", path |-> "", status |-> status]

\* the inline handlers of /api/v1/auth/register, forgot-password, reset-password
HandleRewrite(r, newPath) ==
  [gates |-> <<>>,
   final |-> IF r.method = "POST" THEN Forward("user", newPath)
             ELSE Answer(StatusMethodNotAllowed)]

\* Router.handleUserRoutes
HandleUserRoutes(r) ==
  [gates |-> IF \/ IsProtectedRoute(r.path, ProtectedUserRoutes)
                \/ (r.path = "/api/v1/users" /\ r.method # "POST")
             THEN <<"auth">> ELSE <<>>,
   final |-> Forward("user", TrimPrefix(r.path, "/api/v1"))]

\* the methods Router.handleProductRoutes gates
ProductWriteMethods == {"POST", "PUT", "DELETE"}

\* Router.handleProductRoutes
HandleProductRoutes(r) ==
  [gates |-> IF r.method \in ProductWriteMethods THEN <<"auth", "admin">> ELSE <<>>,
   final |-> Forward("product", TrimPrefix(r.path, "/api/v1"))]

\* Router.handleOrderRoutes
HandleOrderRoutes(r) ==
  [gates |-> IF IsProtectedRoute(r.path, AdminOrderRoutes)
             THEN <<"auth", "admin">> ELSE <<"auth">>,
   final |-> Forward("order", TrimPrefix(r.path, "/api/v1"))]

\* Router.handleAdminRoutes
HandleAdminRoutes(r) ==
  [gates |-> <<"auth", "admin">>,
   final |->
     IF HasPrefix(r.path, "/api/v1/admin/users")
     THEN Forward("user", TrimPrefix(r.path, "/api/v1/admin"))
     ELSE IF HasPrefix(r.path, "/api/v1/admin/products")
     THEN Forward("product", TrimPrefix(r.path, "/api/v1/admin"))
     ELSE IF HasPrefix(r.path, "/api/v1/admin/orders")
     THEN Forward("order", TrimPrefix(r.path, "/api/v1/admin"))
     ELSE Answer(StatusNotFound)]

\* Router.handleUploadRoutes
HandleUploadRoutes(r) ==
  [gates |-> <<"auth">>,
   final |->
     IF r.uploadType \in {"avatar", "profile"}
     THEN Forward("user", TrimPrefix(r.path, "/api/v1"))
     ELSE IF r.uploadType \in {"product", "category"}
     THEN Forward("product", TrimPrefix(r.path, "/api/v1"))
     ELSE Answer(StatusBadRequest)]

\* Router.handleWebhookRoutes
HandleWebhookRoutes(r) ==
  [gates |-> <<>>,
   final |->
     IF HasPrefix(r.path, "/api/v1/webhooks/payment")
     THEN Forward("order", TrimPrefix(r.path, "/api/v1"))
     ELSE IF HasPrefix(r.path, "/api/v1/webhooks/notification")
     THEN Forward("user", TrimPrefix(r.path, "/api/v1"))
     ELSE Answer(StatusNotFound)]

\* Router.handleDocsRoutes
HandleDocsRoutes(r) == [gates |-> <<>>, final |-> Answer(StatusOK)]

\* Router.handleHealthCheck: the probes, then the report
HealthCheck == [kind |-> "health", target |-> "", path |-> "", status |-> StatusOK]
HandleHealthCheck(r) == [gates |-> <<>>, final |-> HealthCheck]

\* the handler function registered for each pattern, other than the AuthHandler's
RoutePlan(handler, r) ==
  CASE handler = "health" -> HandleHealthCheck(r)
    [] handler = "docs" -> HandleDocsRoutes(r)
    [] handler = "register" -> HandleRewrite(r, "/auth/register")
    [] handler = "forgotPassword" -> HandleRewrite(r, "/auth/forgot-password")
    [] handler = "resetPassword" -> HandleRewrite(r, "/auth/reset-password")
    [] handler = "users" -> HandleUserRoutes(r)
    [] handler = "products" -> HandleProductRoutes(r)
    [] handler = "orders" -> HandleOrderRoutes(r)
    [] handler = "admin" -> HandleAdminRoutes(r)
    [] handler = "upload" -> HandleUploadRoutes(r)
    [] handler = "webhooks" -> HandleWebhookRoutes(r)

\* what a failed gate answers: isAuthenticated 401, isAdmin 403
GateStatus(gate) == IF gate = "auth" THEN StatusUnauthorized ELSE StatusForbidden

(***************************************************************************)
(* Request forwarder (ServiceProxy)                                        *)
(***************************************************************************)
\* the targets NewServiceProxy makes a reverse proxy for
Targets == {"user", "product", "order"}

\* the tables NewServiceProxy can build: a target whose configured URL does not
\* parse gets no entry
ServiceTables == {Targets, Targets \ {"order"}}

\* the serviceName each entry of ServiceProxy.services was created with
ServiceName(target) ==
  CASE target = "user" -> "user-service"
    [] target = "product" -> "product-service"
    [] target = "order" -> "order-service"

\* the IDs logger.generateID returns
GenRequestID == "req-generated"
GenCorrelationID == "corr-generated"

\* (mutation of RequestIDHeaders: the request's headers are left as they came)
RequestIDHeadersInbound(hd) == hd

\* the request ID middleware of applyMiddlewares: the IDs of the request context
\* (made by the Logging middleware) are set on the request's headers
RequestIDHeaders(hd) ==
  HSet(HSet(hd, "X-Request-ID", GenRequestID), "X-Correlation-ID", GenCorrelationID)

\* (mutation of Director: the Authorization header is left in place)
DirectorKeepsAuthorization(hd, serviceName) ==
  HDel(HSet(HSet(HSet(hd, "X-Forwarded-By", "api-gateway"),
                 "X-Target-Service", serviceName),
            "User-Agent", "API-Gateway/1.0"),
       "Cookie")

\* the Director of createReverseProxy
Director(hd, serviceName) ==
  LET h1 == IF HGet(hd, "X-Request-ID") # ""
            THEN HSet(hd, "X-Request-ID", HGet(hd, "X-Request-ID")) ELSE hd
      h2 == IF HGet(h1, "X-Correlation-ID") # ""
            THEN HSet(h1, "X-Correlation-ID", HGet(h1, "X-Correlation-ID")) ELSE h1
      h3 == IF HGet(h2, "X-User-ID") # ""
            THEN HSet(h2, "X-User-ID", HGet(h2, "X-User-ID")) ELSE h2
      h4 == HSet(h3, "X-Forwarded-By", "api-gateway")
      h5 == HSet(h4, "X-Target-Service", serviceName)
      h6 == HSet(h5, "User-Agent", "API-Gateway/1.0")
  IN  HDel(HDel(h6, "Cookie"), "Authorization")

NoUpstream == [target |-> "", method |-> "", path |-> "", headers |-> <<>>]

\* the request ProxyToService relays to the target
Outbound(r, final) ==
  [target |-> final.target, method |-> r.method, path |-> final.path,
   headers |-> Director(RequestIDHeaders(r.headers), ServiceName(final.target))]

\* what the upstream may answer
UpstreamStatuses == {200, 401}

\* what http.Get(serviceURL + "/health") may give: a status, or an error
ProbeError == 0
ProbeAnswers == {StatusOK, StatusServiceUnavailable, ProbeError}

\* ServiceProxy.IsServiceHealthy, given what http.Get returned
IsServiceHealthy(serviceName, answer) ==
  IF serviceName \notin {"user", "product", "order"} THEN FALSE
  ELSE IF answer = ProbeError THEN FALSE
  ELSE answer = StatusOK

\* the data of Router.handleHealthCheck's answer (probes: history, what the probes
\* of this call got)
NoHealth == [status |-> "", services |-> <<>>, probes |-> <<>>]
HealthReport(answers) ==
  [status |-> "healthy",
   services |-> [t \in {"user", "product", "order"} |-> IsServiceHealthy(t, answers[t])],
   probes |-> answers]

(***************************************************************************)
(* The requests the clients send                                           *)
(***************************************************************************)
NoBody == [kind |-> "none", email |-> "", password |-> ""]
MalformedBody == [kind |-> "malformed", email |-> "", password |-> ""]
LoginBody(email, password) == [kind |-> "json", email |-> email, password |-> password]

BaseHeaders == [x \in {"Accept"} |-> "*/*"]

\* the credentials a client may attach, as headers: none, a session_id cookie
\* (of an issued id, of an unknown id)
CredentialHeaders ==
  { BaseHeaders,
    HSet(BaseHeaders, "Cookie", "session_id=s1"),
    HSet(BaseHeaders, "Cookie", "session_id=zz") }

\* the other transports, and two credentials at once
OtherCredentialHeaders ==
  { HSet(BaseHeaders, "Authorization", "Bearer s1"),
    HSet(BaseHeaders, "X-Session-ID", "s1"),
    HSet(HSet(BaseHeaders, "Authorization", "Bearer "), "X-Session-ID", "s1"),
    HSet(HSet(BaseHeaders, "Cookie", "session_id=zz"), "Authorization", "Bearer s1"),
    HSet(HSet(BaseHeaders, "Cookie", "session_id=s1"), "Authorization", "Bearer zz"),
    HSet(HSet(BaseHeaders, "Authorization", "Bearer zz"), "X-Session-ID", "s1"),
    HSet(HSet(BaseHeaders, "Cookie", "session_id="), "Authorization", "Bearer s1"),
    HSet(HSet(BaseHeaders, "Authorization", "Basic s1"), "X-Session-ID", "s1") }

SweepMethods == {"GET", "POST", "OPTIONS"}

Paths ==
  { "/health", "/healthz", "/docs", "/docs/swagger.json",
    "/api/v1/auth/logout", "/api/v1/auth/me", "/api/v1/auth/refresh",
    "/api/v1/auth/logout-all", "/api/v1/auth/register", "/api/v1/auth/forgot-password",
    "/api/v1/users", "/api/v1/users/7", "/api/v1/users/profile",
    "/api/v1/products", "/api/v1/products/7", "/api/v1/categories",
    "/api/v1/orders", "/api/v1/orders/7", "/api/v1/orders/admin/all", "/api/v1/cart",
    "/api/v1/admin", "/api/v1/admin/users", "/api/v1/admin/reports",
    "/api/v1/webhooks", "/api/v1/webhooks/payment", "/api/v1/webhooks/other",
    "/nope" }

\* the routes also tried with the other transports and with the other write methods
OtherTransportRoutes ==
  { <<"GET", "/api/v1/orders">>, <<"GET", "/api/v1/auth/me">>,
    <<"POST", "/api/v1/users/profile">>, <<"GET", "/api/v1/admin/users">>,
    <<"POST", "/api/v1/webhooks/payment">> }

OtherWriteRoutes ==
  { <<"PUT", "/api/v1/products/7">>, <<"DELETE", "/api/v1/categories">>,
    <<"PATCH", "/api/v1/products">>, <<"PATCH", "/api/v1/orders">> }

UploadTypes == {"", "avatar", "product"}

LoginBodies ==
  { LoginBody("alice@example.com", "pw-alice"), LoginBody("root@example.com", "pw-root"),
    LoginBody("alice@example.com", "wrong-pw"), LoginBody("", "pw-alice"),
    LoginBody("not-an-email", "pw-alice"), MalformedBody }

Request(method, path, headers, body, uploadType) ==
  [method |-> method, path |-> path, headers |-> headers, body |-> body,
   uploadType |-> uploadType]

NoReq == Request("", "", BaseHeaders, NoBody, "")

\* requests that come with a request ID of the client's
TracedRoutes ==
  { <<"GET", "/health", BaseHeaders>>,
    <<"POST", "/api/v1/webhooks/payment", BaseHeaders>>,
    <<"GET", "/api/v1/orders", HSet(BaseHeaders, "Cookie", "session_id=s1")>> }

TracedRequests ==
  {Request(t[1], t[2], HSet(t[3], "X-Request-ID", "client-req-1"), NoBody, "") :
     t \in TracedRoutes}

\* requests of a logged-in client that name a user in an X-User-ID header
ImpersonatingRequests ==
  {Request("GET", "/api/v1/orders",
           HSet(HSet(BaseHeaders, "Cookie", "session_id=s1"), "X-User-ID", "2"),
           NoBody, "")}

Requests ==
  {Request(m, p, hd, NoBody, "") :
     m \in SweepMethods, p \in Paths \ {"/health"}, hd \in CredentialHeaders}
  \cup {Request(m, "/health", BaseHeaders, NoBody, "") : m \in SweepMethods}
  \cup {Request(mp[1], mp[2], hd, NoBody, "") :
          mp \in OtherTransportRoutes, hd \in OtherCredentialHeaders}
  \cup {Request(mp[1], mp[2], hd, NoBody, "") :
          mp \in OtherWriteRoutes, hd \in CredentialHeaders}
  \cup {Request(m, "/api/v1/upload", hd, NoBody, t) :
          m \in {"POST"}, hd \in CredentialHeaders, t \in UploadTypes}
  \cup {Request(m, "/api/v1/auth/login", BaseHeaders, b, "") :
          m \in {"POST", "GET"}, b \in LoginBodies}
  \cup TracedRequests
  \cup ImpersonatingRequests

\* the requests of the clients that race: login, logout and identity calls of one
\* user, and a call of the documentation route
ConcRequests ==
  {Request("POST", "/api/v1/auth/login", BaseHeaders,
           LoginBody("alice@example.com", "pw-alice"), "")}
  \cup {Request(pm[2], pm[1], HSet(BaseHeaders, "Cookie", "session_id=s1"), NoBody, "") :
          pm \in { <<"/api/v1/auth/me", "GET">>, <<"/api/v1/auth/logout", "POST">>,
                   <<"/api/v1/auth/refresh", "POST">>,
                   <<"/api/v1/auth/logout-all", "POST">>, <<"/docs", "GET">> }}

LogoutRequests == {rq \in ConcRequests : rq.path = "/api/v1/auth/logout"}

\* the requests of the second client, which race with those of the first: its
\* identity calls, and the logout
RacingRequests ==
  {rq \in ConcRequests : rq.path = "/api/v1/auth/me"} \cup LogoutRequests

(***************************************************************************)
(* One request in flight: the chain position and the response              *)
(***************************************************************************)
NoCookie == [value |-> "", max_age |-> 0]
\* the cookie AuthHandler.Login sets
CookieMaxAge == 86400
SessionCookie(sessionID) == [value |-> sessionID, max_age |-> CookieMaxAge]
\* the cookie Logout and LogoutAllSessions set
ClearedCookie == [value |-> "", max_age |-> -1]

IdleH ==
  [pc |-> "idle", phase |-> "", sid |-> "", rec |-> NoRec, handler |-> "",
   gates |-> <<>>, final |-> NoFinal, timedOut |-> FALSE, racing |-> FALSE,
   data |-> NoUser, keys |-> <<>>, entered |-> <<>>, url |-> "", seen |-> <<>>,
   probes |-> <<>>]

NoResp ==
  [status |-> 0, writers |-> <<>>, cookie |-> NoCookie, body |-> NoRec,
   session_id |-> "", data |-> NoUser, proxied |-> FALSE, forward |-> "",
   upstream |-> NoUpstream, request_id |-> "", correlation_id |-> "",
   envelope |-> NoEnvelope,
   health |-> NoHealth, logout |-> ""]

\* Logging: the IDs of the request context, which is new for every request, are
\* set on the response headers before the next layer runs
LoggingResponse ==
  [NoResp EXCEPT !.request_id = GenRequestID, !.correlation_id = GenCorrelationID]

\* the layers of the chain applyMiddlewares builds, outermost first, down to the
\* ServeMux (h.entered: history, the layers the request has entered)
ChainOrder ==
  <<"recovery", "logging", "cors", "auth", "requestid", "security", "timeout", "mux">>

ChainUpTo(layer) ==
  SubSeq(ChainOrder, 1, CHOOSE i \in 1..Len(ChainOrder) : ChainOrder[i] = layer)

\* the body a party writes with a status: the CORS layer a bare WriteHeader, the
\* ServeMux net/http's plain text, the reverse proxy the upstream's body; the
\* gateway's own code an envelope of the errors package
Envelope(who, status) ==
  IF who \in {"cors", "mux", "upstream"} THEN NoEnvelope
  ELSE IF status >= StatusBadRequest THEN ErrorEnvelope(NewAppError(status))
  ELSE SuccessEnvelope

\* http.ResponseWriter: the first WriteHeader fixes the status line and the headers
\* sent; a later write by another party changes neither
WriteFull(rp, who, status, cookie, body, sessionID) ==
  IF rp.status = 0
  THEN [rp EXCEPT !.status = status, !.writers = Append(@, who), !.cookie = cookie,
                  !.body = body, !.session_id = sessionID,
                  !.envelope = Envelope(who, status)]
  ELSE [rp EXCEPT !.writers = Append(@, who)]

\* utils.SendError (the status is the one of the AppError it builds) / utils.SendSuccess
\* without data, written by the handler goroutine
WriteStatus(rp, status) ==
  WriteFull(rp, "handler",
            IF status >= StatusBadRequest THEN NewAppError(status).status ELSE status,
            NoCookie, NoRec, "")

\* the handler returns
Finish(hw) ==
  [hw EXCEPT !.pc = "done", !.phase = "", !.gates = <<>>, !.sid = "", !.rec = NoRec,
             !.data = NoUser, !.keys = <<>>, !.racing = FALSE, !.probes = <<>>]

\* the context of the request is cancelled once the deadline has passed: an
\* upstream call made with it is aborted
CtxDone(hw) == hw.timedOut

\* a store command started with the cancelled context fails before it is sent; one
\* that was on its way when the deadline passed is not interrupted (the client
\* has no ContextTimeoutEnabled), it is applied or fails like any other
\* (h.racing: the deadline passed during the wait the handler is in)
MustFail(hw) == CtxDone(hw) /\ ~hw.racing

\* the assignment to req.URL.Path a route handler makes before ProxyToService
Rewrite(hw, final) ==
  IF final.kind = "forward" THEN [hw EXCEPT !.url = final.path] ELSE hw

\* (mutation of NextGate: the handler assigns req.URL.Path before its gates)
NextGateRewritten(hw, rp, rq) ==
  IF hw.gates = <<>>
  THEN [h |-> [Rewrite(hw, hw.final) EXCEPT !.pc = "final", !.phase = ""], resp |-> rp]
  ELSE LET gate == Head(hw.gates)
           sessionID == RouterExtractSessionID(rq)
           seen == [Rewrite(hw, hw.final) EXCEPT
                      !.seen = Append(@, Rewrite(hw, hw.final).url)]
       IN  IF sessionID = ""
           THEN [h |-> Finish(seen), resp |-> WriteStatus(rp, GateStatus(gate))]
           ELSE [h |-> [seen EXCEPT !.pc = "get", !.phase = gate, !.sid = sessionID,
                                    !.gates = Tail(@)],
                 resp |-> rp]

\* the next gate of a route handler: isAuthenticated / isAdmin up to the store call,
\* on the request as it is (req.URL.Path included); after the last gate the
\* handler goes on to its rewrite and ProxyToService
NextGate(hw, rp, rq) ==
  IF hw.gates = <<>>
  THEN [h |-> [hw EXCEPT !.pc = "final", !.phase = ""], resp |-> rp]
  ELSE LET gate == Head(hw.gates)
           sessionID == RouterExtractSessionID(rq)
           seen == [hw EXCEPT !.seen = Append(@, hw.url)]
       IN  IF sessionID = ""
           THEN [h |-> Finish(seen), resp |-> WriteStatus(rp, GateStatus(gate))]
           ELSE [h |-> [seen EXCEPT !.pc = "get", !.phase = gate, !.sid = sessionID,
                                    !.gates = Tail(@)],
                 resp |-> rp]

\* (mutation of SessionAuthResult: the request goes on whatever ValidateSession said)
SessionAuthResultOpen(hw, rp, ok) ==
  [h |-> [hw EXCEPT !.pc = "route", !.phase = ""], resp |-> rp]

\* SessionAuthMiddleware after ValidateSession: 401 "Invalid session", or next
SessionAuthResult(hw, rp, ok) ==
  IF ok THEN [h |-> [hw EXCEPT !.pc = "route", !.phase = ""], resp |-> rp]
  ELSE [h |-> Finish(hw),
        resp |-> WriteFull(rp, "auth", StatusUnauthorized, NoCookie, NoRec, "")]

\* what the caller of ValidateSession does with its result
LookupDone(hw, rp, rq, ok, sess) ==
  CASE hw.phase = "mw" -> SessionAuthResult(hw, rp, ok)
    [] hw.phase = "auth" ->
         IF ok THEN NextGate(hw, rp, rq)
         ELSE [h |-> Finish(hw), resp |-> WriteStatus(rp, StatusUnauthorized)]
    [] hw.phase = "admin" ->
         IF IsAdmin(ok, sess) THEN NextGate(hw, rp, rq)
         ELSE [h |-> Finish(hw), resp |-> WriteStatus(rp, StatusForbidden)]
    [] hw.phase = "me" ->
         IF ok THEN [h |-> Finish(hw),
                     resp |-> WriteFull(rp, "handler", StatusOK, NoCookie, sess, "")]
         ELSE [h |-> Finish(hw), resp |-> WriteStatus(rp, StatusUnauthorized)]
    [] hw.phase = "logoutAll" ->
         IF ok THEN [h |-> [hw EXCEPT !.pc = "deleteAll", !.phase = "", !.rec = sess],
                     resp |-> rp]
         ELSE [h |-> Finish(hw), resp |-> WriteStatus(rp, StatusUnauthorized)]

(***************************************************************************)
(* The gateway chain, one action per step that waits on the network        *)
(***************************************************************************)
LoginPath == "/api/v1/auth/login"

\* history: one entry per ValidateSession call of the request
LookupEntry(phase, sid, found, fault, late) ==
  [phase |-> phase, sid |-> sid, found |-> found, fault |-> fault, ok |-> FALSE,
   late |-> late, touch |-> ""]

\* the session ids not yet returned by utils.GenerateSessionID (32 random bytes:
\* an id is never returned twice)
FreshIDs(ids) == ids \ DOMAIN issued

\* the requests in progress that may still ask for a session id
LoginsInFlight ==
  {v \in GwWorkers : h[v].pc \notin {"idle", "done"} /\ req[v].path = LoginPath}

\* Recovery, Logging, CORS and SessionAuthMiddleware up to its store call
\* the handler state of a request that has arrived: req.URL.Path is the path of
\* the request line (h.url: the current value of req.URL.Path; h.seen: history,
\* the values of req.URL.Path the gates of the route handler have read)
Arrived(rq) == [IdleH EXCEPT !.url = rq.path]

GwReceive(w, rq, ids) ==
  /\ h[w].pc = "idle"
  /\ rq.path = LoginPath =>
       Cardinality(LoginsInFlight) < Cardinality(FreshIDs(ids))
  /\ req' = [req EXCEPT ![w] = rq]
  /\ lookups' = [lookups EXCEPT ![w] = <<>>]
  /\ IF rq.method = "OPTIONS"
     THEN /\ h' = [h EXCEPT ![w] = Finish([Arrived(rq) EXCEPT !.entered = ChainUpTo("cors")])]
          /\ resp' = [resp EXCEPT ![w] =
               WriteFull(LoggingResponse, "cors", StatusOK, NoCookie, NoRec, "")]
     ELSE IF SkipsAuth(rq)
     THEN /\ h' = [h EXCEPT ![w] =
               [Arrived(rq) EXCEPT !.pc = "route", !.entered = ChainUpTo("auth")]]
          /\ resp' = [resp EXCEPT ![w] = LoggingResponse]
     ELSE IF ExtractSessionIDFromRequest(rq) = ""
     THEN /\ h' = [h EXCEPT ![w] = Finish([Arrived(rq) EXCEPT !.entered = ChainUpTo("auth")])]
          /\ resp' = [resp EXCEPT ![w] =
               WriteFull(LoggingResponse, "auth", StatusUnauthorized, NoCookie, NoRec, "")]
     ELSE /\ h' = [h EXCEPT ![w] =
               [Arrived(rq) EXCEPT !.pc = "get", !.phase = "mw",
                             !.sid = ExtractSessionIDFromRequest(rq),
                             !.entered = ChainUpTo("auth")]]
          /\ resp' = [resp EXCEPT ![w] = LoggingResponse]
  /\ UNCHANGED <<clock, store, issued, rlVars, services, pkgVars>>

\* (mutation of InHandler: the deadline also covers the session middleware)
InHandlerOrMiddleware(hw) ==
  hw.pc \in {"get", "set", "mux", "final", "login", "create", "delete", "extend",
             "deleteAll", "deleteAllGet", "deleteAllDel"}

\* the positions of the handler goroutine the Timeout middleware waits on
InHandler(hw) ==
  \/ hw.pc \in {"mux", "final", "login", "create", "delete", "extend", "deleteAll",
                "deleteAllGet", "deleteAllDel"}
  \/ hw.pc \in {"get", "set"} /\ hw.phase # "mw"

\* the ResponseWriter once the timeout branch has written its envelope
TimeoutWritten(w) ==
  IF h[w].timedOut THEN resp[w]
  ELSE WriteFull(resp[w], "timeout", StatusRequestTimeout, NoCookie, NoRec, "")

\* a step of the code that serves the request ends: n is the handler state and the
\* response it leaves when it writes first, r when the timeout branch has. The handler
\* goroutine and the Timeout middleware use the ResponseWriter unsynchronised:
\* where the step writes while the 408 is being written (the deadline passed
\* during this wait, or passes now), the two writes end in either order, the
\* header the handler has set (cookie) can go out with the 408, or the runtime
\* ends the process on the concurrent writes of the header map
HandlerStep(w, n, r, cookie) ==
  LET writes == Len(n.resp.writers) > Len(resp[w].writers)
  IN  \/ /\ h' = [h EXCEPT ![w] = [n.h EXCEPT !.racing = FALSE]]
         /\ resp' = [resp EXCEPT ![w] = n.resp]
      \/ /\ writes
         /\ InHandler(h[w])
         /\ h[w].racing \/ ~h[w].timedOut
         /\ \/ \E c \in {NoCookie, cookie} :
                 /\ h' = [h EXCEPT ![w] =
                      [r.h EXCEPT !.racing = FALSE, !.timedOut = TRUE]]
                 /\ resp' = [resp EXCEPT ![w] = [r.resp EXCEPT !.cookie = c]]
            \/ /\ h' = [v \in GwWorkers |-> [h[v] EXCEPT !.pc = "fatal"]]
               /\ UNCHANGED resp

\* SessionManager.GetSession, first half: redis GET, json.Unmarshal
GwGet(w) ==
  /\ h[w].pc = "get"
  /\ \E fault \in BOOLEAN :
       /\ MustFail(h[w]) => fault
       /\ LET sid == h[w].sid
              found == sid \in DOMAIN store
              late == sid \in DOMAIN issued /\ issued[sid].loggedOut
              step(rp) ==
                IF ~fault /\ found
                THEN [h |-> [h[w] EXCEPT
                               !.pc = "set",
                               !.rec = [store[sid].val EXCEPT !.last_seen = clock]],
                      resp |-> rp]
                ELSE LookupDone(h[w], rp, req[w], FALSE, NoRec)
          IN  /\ lookups' = [lookups EXCEPT ![w] =
                   Append(@, LookupEntry(h[w].phase, sid, found, fault, late))]
              /\ HandlerStep(w, step(resp[w]), step(TimeoutWritten(w)), NoCookie)
  /\ UNCHANGED <<clock, store, issued, req, rlVars, services, pkgVars>>

\* SessionManager.GetSession, second half: LastSeen = time.Now(), UpdateSession
\* (redis SET with the TTL); then the caller of ValidateSession goes on
GwSet(w) ==
  /\ h[w].pc = "set"
  /\ \E fault \in BOOLEAN, t \in h[w].rec.last_seen..clock :
       /\ MustFail(h[w]) => fault
       /\ LET sess == [h[w].rec EXCEPT !.last_seen = t]
              step(rp) == LookupDone(h[w], rp, req[w], ~fault, sess)
              k == Len(lookups[w])
          IN  /\ store' = IF fault THEN store ELSE RedisSet(store, h[w].sid, sess, clock)
              /\ HandlerStep(w, step(resp[w]), step(TimeoutWritten(w)), NoCookie)
              /\ lookups' = [lookups EXCEPT
                   ![w][k].fault = fault, ![w][k].ok = ~fault,
                   ![w][k].touch = IF fault THEN "failed" ELSE "ok"]
              /\ issued' = IF fault \/ h[w].sid \notin DOMAIN issued THEN issued
                           ELSE [issued EXCEPT ![h[w].sid].touchExp = store'[h[w].sid].exp]
  /\ UNCHANGED <<clock, req, rlVars, services, pkgVars>>

\* the request ID middleware, SecurityHeaders, and Timeout up to its select: the
\* deadline is armed and the handler goroutine started, which has not run yet
GwRoute(w) ==
  /\ h[w].pc = "route"
  /\ h' = [h EXCEPT ![w] = [@ EXCEPT !.pc = "mux", !.entered = ChainUpTo("timeout")]]
  /\ UNCHANGED <<clock, store, issued, req, resp, lookups, rlVars, services, pkgVars>>

\* the handler goroutine runs: the ServeMux and the matched handler up to its
\* first network call, or to its answer where it makes none
GwMux(w) ==
  /\ h[w].pc = "mux"
  /\ LET rq == req[w]
         handler == MuxMatch(rq.path)
         hw == [h[w] EXCEPT !.handler = handler, !.entered = ChainUpTo("mux")]
         sessionID == AuthHandlerExtractSessionID(rq)
         lookup(phase, rp) ==
           IF sessionID = ""
           THEN [h |-> Finish(hw), resp |-> WriteStatus(rp, StatusUnauthorized)]
           ELSE [h |-> [hw EXCEPT !.pc = "get", !.phase = phase, !.sid = sessionID],
                 resp |-> rp]
         step(rp) ==
           CASE handler = "redirect" ->
                  [h |-> Finish(hw),
                   resp |-> WriteFull(rp, "mux", StatusMovedPermanently, NoCookie,
                                      NoRec, "")]
             [] handler = "notfound" ->
                  [h |-> Finish(hw),
                   resp |-> WriteFull(rp, "mux", StatusNotFound, NoCookie, NoRec, "")]
             [] handler = "login" ->
                  [h |-> [hw EXCEPT !.pc = "login"], resp |-> rp]
             [] handler = "logout" ->
                  IF sessionID = ""
                  THEN [h |-> Finish(hw), resp |-> WriteStatus(rp, StatusBadRequest)]
                  ELSE [h |-> [hw EXCEPT !.pc = "delete", !.sid = sessionID],
                        resp |-> rp]
             [] handler = "me" -> lookup("me", rp)
             [] handler = "refresh" ->
                  IF sessionID = ""
                  THEN [h |-> Finish(hw), resp |-> WriteStatus(rp, StatusUnauthorized)]
                  ELSE [h |-> [hw EXCEPT !.pc = "extend", !.sid = sessionID],
                        resp |-> rp]
             [] handler = "logoutAll" -> lookup("logoutAll", rp)
             [] OTHER ->
                  LET plan == RoutePlan(handler, [rq EXCEPT !.path = hw.url])
                  IN  NextGate([hw EXCEPT !.gates = plan.gates, !.final = plan.final],
                               rp, rq)
     IN  HandlerStep(w, step(resp[w]), step(TimeoutWritten(w)), NoCookie)
  /\ UNCHANGED <<clock, store, issued, req, lookups, rlVars, services, pkgVars>>

\* ServiceProxy.ProxyToService: the table lookup, then proxy.ServeHTTP; a transport
\* error goes to the ErrorHandler. (resp.forward: history, how the call ended)
ProxyToService(rp, rq, final, table, cancelled, answer) ==
  IF final.target \notin table
  THEN [WriteStatus(rp, StatusNotFound) EXCEPT !.proxied = TRUE, !.forward = "unknown"]
  ELSE IF cancelled \/ answer = StatusBadGateway
  THEN [WriteStatus(rp, StatusBadGateway) EXCEPT
          !.proxied = TRUE, !.forward = "unreachable"]
  ELSE [WriteFull(rp, "upstream", answer, NoCookie, NoRec, "") EXCEPT
          !.proxied = TRUE, !.forward = "relayed", !.upstream = Outbound(rq, final)]

\* the order in which handleHealthCheck calls IsServiceHealthy
ProbeOrder == <<"user", "product", "order">>

\* the answers of the probes made so far, by target
ProbeAnswered(probes) ==
  [t \in {ProbeOrder[i] : i \in 1..Len(probes)} |->
     probes[CHOOSE i \in 1..Len(probes) : ProbeOrder[i] = t]]

\* Router.handleHealthCheck, one IsServiceHealthy call: http.Get with the default
\* client, which the deadline of the request does not abort, returns; the URL of a
\* target that has no reverse proxy does not parse, so its probe fails
\* (h.probes: what the probes of this call got so far)
GwProbe(w) ==
  /\ h[w].pc = "final"
  /\ h[w].final.kind = "health"
  /\ Len(h[w].probes) < Len(ProbeOrder)
  /\ \E answer \in ProbeAnswers :
       /\ ProbeOrder[Len(h[w].probes) + 1] \notin services => answer = ProbeError
       /\ LET n == [h |-> [h[w] EXCEPT !.probes = Append(@, answer)], resp |-> resp[w]]
          IN  HandlerStep(w, n, n, NoCookie)
  /\ UNCHANGED <<clock, store, issued, req, lookups, rlVars, services, pkgVars>>

\* the end of a route handler: the rewrite of req.URL.Path and
\* ServiceProxy.ProxyToService, the report of the health probes once the last
\* one has returned, or the handler's own answer
GwFinal(w) ==
  /\ h[w].pc = "final"
  /\ LET f == h[w].final
         hw == Finish(Rewrite(h[w], f))
     IN  IF f.kind = "answer"
         THEN LET step(rp) == [h |-> hw, resp |-> WriteStatus(rp, f.status)]
              IN  HandlerStep(w, step(resp[w]), step(TimeoutWritten(w)), NoCookie)
         ELSE IF f.kind = "health"
         THEN /\ Len(h[w].probes) = Len(ProbeOrder)
              /\ LET step(rp) ==
                       [h |-> hw,
                        resp |-> [WriteStatus(rp, f.status) EXCEPT
                                    !.health = HealthReport(ProbeAnswered(h[w].probes))]]
                 IN  HandlerStep(w, step(resp[w]), step(TimeoutWritten(w)), NoCookie)
         ELSE \E answer \in UpstreamStatuses \cup {StatusBadGateway} :
                LET step(rp) ==
                      [h |-> hw,
                       resp |-> ProxyToService(rp, req[w], f, services, CtxDone(h[w]),
                                               answer)]
                IN  HandlerStep(w, step(resp[w]), step(TimeoutWritten(w)), NoCookie)
  /\ UNCHANGED <<clock, store, issued, req, lookups, rlVars, services, pkgVars>>

\* AuthHandler.Login up to the answer of the user service, whose table is the one
\* its writes have left by then
GwLoginCall(w) ==
  /\ h[w].pc = "login"
  /\ LET b == req[w].body
         refused(rp) == [h |-> Finish(h[w]), resp |-> WriteStatus(rp, StatusBadRequest)]
     IN  IF b.kind # "json" \/ b.email = "" \/ b.password = ""
         THEN HandlerStep(w, refused(resp[w]), refused(TimeoutWritten(w)), NoCookie)
         ELSE \E reachable \in BOOLEAN, tbl \in UserTables :
                /\ CtxDone(h[w]) => ~reachable
                /\ LET v == ValidateCredentials(tbl, b.email, b.password, reachable)
                       step(rp) ==
                         IF v.err
                         THEN [h |-> Finish(h[w]),
                               resp |-> WriteStatus(rp, StatusUnauthorized)]
                         ELSE [h |-> [h[w] EXCEPT !.pc = "create", !.data = v.data],
                               resp |-> rp]
                   IN  HandlerStep(w, step(resp[w]), step(TimeoutWritten(w)), NoCookie)
  /\ UNCHANGED <<clock, store, issued, req, lookups, rlVars, services, pkgVars>>

LoginOutcomes == {"ok", "no id", "store error"}

\* (mutation of GwLoginCreate: the cookie is set before CreateSession, so the
\* answer to a failed CreateSession carries it)
GwLoginCreateCookieFirst(w, ids) ==
  /\ h[w].pc = "create"
  /\ \E outcome \in LoginOutcomes :
       /\ MustFail(h[w]) => outcome # "ok"
       /\ IF outcome = "ok"
          THEN \E sessionID \in FreshIDs(ids) :
                   /\ store' = RedisSet(store, sessionID, NewUserSession(h[w].data), clock)
                   /\ issued' = [s \in DOMAIN issued \cup {sessionID} |->
                        IF s = sessionID
                        THEN [data |-> h[w].data, loggedOut |-> FALSE, touchExp |-> NoTime]
                        ELSE issued[s]]
                   /\ LET step(rp) ==
                            [h |-> Finish(h[w]),
                             resp |-> [WriteFull(rp, "handler", StatusOK,
                                                 SessionCookie(sessionID), NoRec,
                                                 sessionID) EXCEPT !.data = h[w].data]]
                      IN  HandlerStep(w, step(resp[w]), step(TimeoutWritten(w)),
                                      SessionCookie(sessionID))
          ELSE /\ \E sessionID \in FreshIDs(ids) :
                    LET c == IF outcome = "store error" THEN SessionCookie(sessionID)
                             ELSE NoCookie
                        step(rp) ==
                          [h |-> Finish(h[w]),
                           resp |-> WriteFull(rp, "handler", StatusInternalServerError,
                                              c, NoRec, "")]
                    IN  HandlerStep(w, step(resp[w]), step(TimeoutWritten(w)), c)
               /\ UNCHANGED <<store, issued>>
  /\ UNCHANGED <<clock, req, lookups, rlVars, services, pkgVars>>

\* AuthHandler.Login from GenerateSessionID on: CreateSession, the cookie, 200
GwLoginCreate(w, ids) ==
  /\ h[w].pc = "create"
  /\ \E outcome \in LoginOutcomes :
       /\ MustFail(h[w]) => outcome # "ok"
       /\ IF outcome = "ok"
          THEN \E sessionID \in FreshIDs(ids) :
                   /\ store' = RedisSet(store, sessionID, NewUserSession(h[w].data), clock)
                   /\ issued' = [s \in DOMAIN issued \cup {sessionID} |->
                        IF s = sessionID
                        THEN [data |-> h[w].data, loggedOut |-> FALSE, touchExp |-> NoTime]
                        ELSE issued[s]]
                   /\ LET step(rp) ==
                            [h |-> Finish(h[w]),
                             resp |-> [WriteFull(rp, "handler", StatusOK,
                                                 SessionCookie(sessionID), NoRec,
                                                 sessionID) EXCEPT !.data = h[w].data]]
                      IN  HandlerStep(w, step(resp[w]), step(TimeoutWritten(w)),
                                      SessionCookie(sessionID))
          ELSE /\ LET step(rp) ==
                        [h |-> Finish(h[w]),
                         resp |-> WriteStatus(rp, StatusInternalServerError)]
                  IN  HandlerStep(w, step(resp[w]), step(TimeoutWritten(w)), NoCookie)
               /\ UNCHANGED <<store, issued>>
  /\ UNCHANGED <<clock, req, lookups, rlVars, services, pkgVars>>

\* (mutation of GwLogoutDelete: a failed delete fails the logout)
GwLogoutDeleteStrict(w) ==
  /\ h[w].pc = "delete"
  /\ \E fault \in BOOLEAN :
       /\ MustFail(h[w]) => fault
       /\ store' = IF fault THEN store ELSE RedisDel(store, h[w].sid)
       /\ issued' = IF fault THEN issued
                    ELSE [s \in DOMAIN issued |->
                            IF s = h[w].sid THEN [issued[s] EXCEPT !.loggedOut = TRUE]
                            ELSE issued[s]]
       /\ LET step(rp) ==
                [h |-> Finish(h[w]),
                 resp |-> [(IF fault THEN WriteStatus(rp, StatusInternalServerError)
                            ELSE WriteFull(rp, "handler", StatusOK, ClearedCookie,
                                           NoRec, ""))
                             EXCEPT !.logout = IF fault THEN "failed" ELSE "deleted"]]
          IN  HandlerStep(w, step(resp[w]), step(TimeoutWritten(w)),
                          IF fault THEN NoCookie ELSE ClearedCookie)
  /\ UNCHANGED <<clock, req, lookups, rlVars, services, pkgVars>>

\* AuthHandler.Logout from DeleteSession on: the delete is best effort
\* (resp.logout: history, how DeleteSession ended)
GwLogoutDelete(w) ==
  /\ h[w].pc = "delete"
  /\ \E fault \in BOOLEAN :
       /\ MustFail(h[w]) => fault
       /\ store' = IF fault THEN store ELSE RedisDel(store, h[w].sid)
       /\ issued' = IF fault THEN issued
                    ELSE [s \in DOMAIN issued |->
                            IF s = h[w].sid THEN [issued[s] EXCEPT !.loggedOut = TRUE]
                            ELSE issued[s]]
       /\ LET step(rp) ==
                [h |-> Finish(h[w]),
                 resp |-> [WriteFull(rp, "handler", StatusOK, ClearedCookie, NoRec, "")
                             EXCEPT !.logout = IF fault THEN "failed" ELSE "deleted"]]
          IN  HandlerStep(w, step(resp[w]), step(TimeoutWritten(w)), ClearedCookie)
  /\ UNCHANGED <<clock, req, lookups, rlVars, services, pkgVars>>

\* AuthHandler.RefreshSession from ExtendSession on
GwExtend(w) ==
  /\ h[w].pc = "extend"
  /\ \E fault \in BOOLEAN :
       /\ MustFail(h[w]) => fault
       /\ store' = IF fault THEN store ELSE RedisExpire(store, h[w].sid, clock)
       /\ LET step(rp) ==
                [h |-> Finish(h[w]),
                 resp |-> WriteStatus(rp, IF fault THEN StatusUnauthorized
                                          ELSE StatusOK)]
          IN  HandlerStep(w, step(resp[w]), step(TimeoutWritten(w)), NoCookie)
  /\ UNCHANGED <<clock, issued, req, lookups, rlVars, services, pkgVars>>

\* AuthHandler.LogoutAllSessions once DeleteSessions has returned: 500, or the
\* cleared cookie and 200
DeleteAllEnds(hw, rp, failed) ==
  [h |-> Finish(hw),
   resp |-> IF failed THEN WriteStatus(rp, StatusInternalServerError)
            ELSE WriteFull(rp, "handler", StatusOK, ClearedCookie, NoRec, "")]

\* the loop of DeleteSessions over the keys left: the GET of the next key, or
\* the return
DeleteAllNext(hw, rp, keys) ==
  IF keys = <<>> THEN DeleteAllEnds(hw, rp, FALSE)
  ELSE [h |-> [hw EXCEPT !.pc = "deleteAllGet", !.keys = keys], resp |-> rp]

\* AuthHandler.LogoutAllSessions from DeleteSessions on: redis KEYS prefix:*
GwDeleteAll(w) ==
  /\ h[w].pc = "deleteAll"
  /\ \E fault \in BOOLEAN, keys \in KeyOrders(DOMAIN store) :
       /\ MustFail(h[w]) => fault
       /\ LET step(rp) == IF fault THEN DeleteAllEnds(h[w], rp, TRUE)
                          ELSE DeleteAllNext(h[w], rp, keys)
          IN  HandlerStep(w, step(resp[w]), step(TimeoutWritten(w)), ClearedCookie)
  /\ UNCHANGED <<clock, store, issued, req, lookups, rlVars, services, pkgVars>>

\* DeleteSessions, the GET of a key: a key that is gone by now is skipped, one of
\* the user goes on to its DEL
GwDeleteAllGet(w) ==
  /\ h[w].pc = "deleteAllGet"
  /\ \E fault \in BOOLEAN :
       /\ MustFail(h[w]) => fault
       /\ LET key == Head(h[w].keys)
              step(rp) ==
                IF fault THEN DeleteAllEnds(h[w], rp, TRUE)
                ELSE IF key \notin DOMAIN store
                THEN DeleteAllNext(h[w], rp, Tail(h[w].keys))
                ELSE IF UserMatches(store[key].val, h[w].rec.user_id)
                THEN [h |-> [h[w] EXCEPT !.pc = "deleteAllDel"], resp |-> rp]
                ELSE DeleteAllNext(h[w], rp, Tail(h[w].keys))
          IN  HandlerStep(w, step(resp[w]), step(TimeoutWritten(w)), ClearedCookie)
  /\ UNCHANGED <<clock, store, issued, req, lookups, rlVars, services, pkgVars>>

\* DeleteSessions, the DEL of a key of the user
GwDeleteAllDel(w) ==
  /\ h[w].pc = "deleteAllDel"
  /\ \E fault \in BOOLEAN :
       /\ MustFail(h[w]) => fault
       /\ store' = IF fault THEN store ELSE RedisDel(store, Head(h[w].keys))
       /\ LET step(rp) == IF fault THEN DeleteAllEnds(h[w], rp, TRUE)
                          ELSE DeleteAllNext(h[w], rp, Tail(h[w].keys))
          IN  HandlerStep(w, step(resp[w]), step(TimeoutWritten(w)), ClearedCookie)
  /\ UNCHANGED <<clock, issued, req, lookups, rlVars, services, pkgVars>>

\* Timeout, the ctx.Done() case of its select: the middleware writes the
\* RequestTimeout envelope and returns, the handler goroutine goes on with a
\* cancelled context. The case is also taken when the handler has written and
\* the deadline passes before its `done` is received (or both are ready)
GwDeadline(w) ==
  /\ InHandler(h[w]) \/ (h[w].pc = "done" /\ h[w].entered = ChainOrder)
  /\ ~h[w].timedOut
  /\ h' = [h EXCEPT ![w] = [@ EXCEPT !.timedOut = TRUE, !.racing = InHandler(h[w])]]
  /\ resp' = [resp EXCEPT ![w] =
       WriteFull(@, "timeout", StatusRequestTimeout, NoCookie, NoRec, "")]
  /\ UNCHANGED <<clock, store, issued, req, lookups, rlVars, services, pkgVars>>

\* a panic in a layer beneath Recovery. On the goroutine that serves the request
\* (the layers down to Timeout) Recovery's deferred recover() answers 500; on the
\* goroutine Timeout starts for the handler nothing recovers it and the Go runtime
\* ends the process, with every request it was serving
GwPanic(w) ==
  /\ h[w].pc \notin {"idle", "done", "crashed", "fatal"}
  /\ IF InHandler(h[w])
     THEN /\ h' = [v \in GwWorkers |-> [h[v] EXCEPT !.pc = "crashed"]]
          /\ UNCHANGED resp
     ELSE /\ h' = [h EXCEPT ![w] = Finish(@)]
          /\ resp' = [resp EXCEPT ![w] =
               WriteFull(@, "recovery", StatusInternalServerError, NoCookie, NoRec, "")]
  /\ UNCHANGED <<clock, store, issued, req, lookups, rlVars, services, pkgVars>>

\* time passes; Redis drops the keys whose TTL has run out
GwTick ==
  /\ clock < MaxSessionClock
  /\ clock' = clock + 1
  /\ store' = RedisPurge(store, clock + 1)
  /\ UNCHANGED <<issued, req, h, resp, lookups, rlVars, services, pkgVars>>

\* the worker is ready for its next request
GwReset(w) ==
  /\ h[w].pc = "done"
  /\ req' = [req EXCEPT ![w] = NoReq]
  /\ h' = [h EXCEPT ![w] = IdleH]
  /\ resp' = [resp EXCEPT ![w] = NoResp]
  /\ lookups' = [lookups EXCEPT ![w] = <<>>]
  /\ UNCHANGED <<clock, store, issued, rlVars, services, pkgVars>>

(***************************************************************************)
(* SessionManager.DeleteSessions, one step per redis command               *)
(***************************************************************************)
\* the keys of the stores DeleteSessions is run on
DSKeys == {"s1", "s2", "s3"}

\* the UserLoginData of a user of the user service
LoginData(u) == [id |-> u.id, name |-> u.name, email |-> u.email, role |-> u.role]

\* the stores CreateSession can have built: every key holds the session of a user
DSStores ==
  UNION {[ks -> {[val |-> NewUserSession(LoginData(u)), exp |-> SessionTTL] : u \in Users}]
           : ks \in SUBSET DSKeys}

\* no call in progress (ds.before, ds.interleaved: history, the store when the
\* call began, and whether another client's command ran during the call)
DSIdle ==
  [pc |-> "idle", userID |-> 0, keys |-> <<>>, err |-> "", before |-> <<>>,
   interleaved |-> FALSE]

\* DeleteSessions(ctx, userID) up to the answer of KEYS prefix:*
DSKeysCall(userID) ==
  /\ ds.pc = "idle"
  /\ \E fault \in BOOLEAN :
       IF fault
       THEN ds' = [ds EXCEPT !.pc = "done", !.userID = userID, !.before = store,
                             !.err = "failed to get session keys"]
       ELSE \E keys \in KeyOrders(DOMAIN store) :
              ds' = [ds EXCEPT !.pc = "loop", !.userID = userID, !.before = store,
                               !.keys = keys]
  /\ UNCHANGED <<clock, gwVars, rlVars, mwVars, am, us>>

\* one turn of the loop up to DEL: GET key (redis.Nil: continue; another error:
\* return), json.Unmarshal, the comparison of the user id
DSGet ==
  /\ ds.pc = "loop"
  /\ ds.keys # <<>>
  /\ LET key == Head(ds.keys)
     IN  \E fault \in BOOLEAN :
           ds' = IF fault
                 THEN [ds EXCEPT !.pc = "done", !.err = "failed to get session"]
                 ELSE IF key \notin DOMAIN store
                 THEN [ds EXCEPT !.keys = Tail(@)]
                 ELSE IF UserMatches(store[key].val, ds.userID)
                 THEN [ds EXCEPT !.pc = "del"]
                 ELSE [ds EXCEPT !.keys = Tail(@)]
  /\ UNCHANGED <<clock, gwVars, rlVars, mwVars, am, us>>

\* DEL key: an error returns, a key that is gone is no error
DSDel ==
  /\ ds.pc = "del"
  /\ \E fault \in BOOLEAN :
       IF fault
       THEN /\ ds' = [ds EXCEPT !.pc = "done", !.err = "failed to delete session"]
            /\ UNCHANGED store
       ELSE /\ ds' = [ds EXCEPT !.pc = "loop", !.keys = Tail(@)]
            /\ store' = RedisDel(store, Head(ds.keys))
  /\ UNCHANGED <<clock, issued, req, h, resp, lookups, services, rlVars, mwVars, am, us>>

\* the loop is over: return nil
DSReturn ==
  /\ ds.pc = "loop"
  /\ ds.keys = <<>>
  /\ ds' = [ds EXCEPT !.pc = "done"]
  /\ UNCHANGED <<clock, gwVars, rlVars, mwVars, am, us>>

\* a command of another client between two commands of the call: CreateSession
\* of a login (SET), or a key that goes (DEL of a Logout, or its TTL runs out)
DSOther ==
  /\ ds.pc \in {"loop", "del"}
  /\ ~ds.interleaved
  /\ ds' = [ds EXCEPT !.interleaved = TRUE]
  /\ \/ \E k \in DSKeys \ DOMAIN store, u \in Users :
          store' = RedisSet(store, k, NewUserSession(LoginData(u)), clock)
     \/ \E k \in DOMAIN store : store' = RedisDel(store, k)
  /\ UNCHANGED <<clock, issued, req, h, resp, lookups, services, rlVars, mwVars, am, us>>

(***************************************************************************)
(* AdminMiddleware behind SessionAuthMiddleware (middleware/gateway)       *)
(***************************************************************************)
\* a context key: Go compares keys as interface values, dynamic type and value
ContextKey(type, name) == <<type, name>>

\* the const block of auth.go
userSessionKey == ContextKey("contextKey", "user_session")
userIDKey == ContextKey("contextKey", "user_id")
userRoleKey == ContextKey("contextKey", "user_role")
sessionIDKey == ContextKey("contextKey", "session_id")

\* a context value with its dynamic type
CtxVal(type, val) == [type |-> type, val |-> val]

\* context.Background()
EmptyCtx == [k \in {} |-> CtxVal("", "")]

\* context.WithValue
WithValue(ctx, key, val) == [k \in DOMAIN ctx \cup {key} |-> IF k = key THEN val ELSE ctx[k]]

\* ctx.Value(key) with the type assertion to *session.UserSession
CtxUserSession(ctx, key) ==
  IF key \in DOMAIN ctx /\ ctx[key].type = "*session.UserSession"
  THEN [ok |-> TRUE, val |-> ctx[key].val]
  ELSE [ok |-> FALSE, val |-> NoRec]

\* no request in the chain (am.rec: the session GetSession has read; am.others:
\* history, whether a command of another request ran during this one)
AmIdle ==
  [pc |-> "idle", req |-> NoReq, sid |-> "", rec |-> NoRec, ctx |-> EmptyCtx,
   status |-> 0, next |-> FALSE, others |-> FALSE]

\* the roles a stored session may carry
AdminChainRoles == {"admin", ADMIN, USER}

\* the session stores the chain is tried with: none, or s1 with one of the roles
AdminChainStores ==
  {[k \in {} |-> [val |-> NoRec, exp |-> 0]]}
  \cup {[k \in {"s1"} |->
           [val |-> [NewUserSession(LoginData(u)) EXCEPT !.role = r], exp |-> SessionTTL]] :
          u \in Users, r \in AdminChainRoles}

\* SessionAuthMiddleware up to ValidateSession: the skip rule and the credential
AmSessionAuth ==
  /\ am.pc = "session"
  /\ LET sessionID == ExtractSessionIDFromRequest(am.req)
     IN  am' = IF SkipsAuth(am.req) THEN [am EXCEPT !.pc = "admin"]
               ELSE IF sessionID = ""
               THEN [am EXCEPT !.pc = "done", !.status = StatusUnauthorized]
               ELSE [am EXCEPT !.pc = "get", !.sid = sessionID]
  /\ UNCHANGED <<clock, gwVars, rlVars, ds, mwVars, us>>

\* ValidateSession, GetSession's redis GET: an error or a missing key is 401
\* "Invalid session"
AmGet ==
  /\ am.pc = "get"
  /\ \E fault \in BOOLEAN :
       am' = IF fault \/ am.sid \notin DOMAIN store
             THEN [am EXCEPT !.pc = "done", !.status = StatusUnauthorized]
             ELSE [am EXCEPT !.pc = "set",
                             !.rec = [store[am.sid].val EXCEPT !.last_seen = clock]]
  /\ UNCHANGED <<clock, gwVars, rlVars, ds, mwVars, us>>

\* GetSession's touch (redis SET with the TTL): an error is 401; otherwise the
\* four context values, then next
AmSet ==
  /\ am.pc = "set"
  /\ \E fault \in BOOLEAN :
       IF fault
       THEN /\ am' = [am EXCEPT !.pc = "done", !.status = StatusUnauthorized]
            /\ UNCHANGED store
       ELSE LET userSession == am.rec
                c1 == WithValue(am.ctx, userSessionKey,
                                CtxVal("*session.UserSession", userSession))
                c2 == WithValue(c1, userIDKey, CtxVal("uint", userSession.user_id))
                c3 == WithValue(c2, userRoleKey, CtxVal("string", userSession.role))
                c4 == WithValue(c3, sessionIDKey, CtxVal("string", am.sid))
            IN  /\ store' = RedisSet(store, am.sid, userSession, clock)
                /\ am' = [am EXCEPT !.pc = "admin", !.ctx = c4]
  /\ UNCHANGED <<clock, issued, req, h, resp, lookups, rlVars, services, ds, mwVars, us>>

\* a command of another request between two commands of this one: the
\* DeleteSession of a Logout
AmOther ==
  /\ am.pc \in {"get", "set"}
  /\ ~am.others
  /\ am.sid \in DOMAIN store
  /\ store' = RedisDel(store, am.sid)
  /\ am' = [am EXCEPT !.others = TRUE]
  /\ UNCHANGED <<clock, issued, req, h, resp, lookups, rlVars, services, ds, mwVars, us>>

\* AdminMiddleware: the status it answers, 0 when it calls next
AdminMiddleware(ctx) ==
  LET v == CtxUserSession(ctx, ContextKey("string", "user_session"))
  IN  IF ~v.ok \/ v.val.role # "admin" THEN StatusForbidden ELSE 0

\* AdminMiddleware serving the request SessionAuthMiddleware passed on
AmAdmin ==
  /\ am.pc = "admin"
  /\ am' = [am EXCEPT !.pc = "done", !.status = AdminMiddleware(am.ctx),
                      !.next = AdminMiddleware(am.ctx) = 0]
  /\ UNCHANGED <<clock, gwVars, rlVars, ds, mwVars, us>>

(***************************************************************************)
(* The user service, one action per database statement of a request        *)
(***************************************************************************)
\* POST /auth/register: ExistsByEmail
UsRegister(w) ==
  /\ us' \in Register(us, w)
  /\ UNCHANGED <<clock, gwVars, rlVars, ds, mwVars, am>>

\* POST /auth/register: the INSERT
UsRegisterCreate(w) ==
  /\ us' \in RegisterCreate(us, w)
  /\ UNCHANGED <<clock, gwVars, rlVars, ds, mwVars, am>>

\* PUT /users?id=: GetByID
UsUpdateUser(w) ==
  /\ us' \in UpdateUser(us, w)
  /\ UNCHANGED <<clock, gwVars, rlVars, ds, mwVars, am>>

\* PUT /users?id=: GetByEmail
UsUpdateEmail(w) ==
  /\ us' \in UpdateUserEmail(us, w)
  /\ UNCHANGED <<clock, gwVars, rlVars, ds, mwVars, am>>

\* db.Save of a profile update, a password change or a verification: its UPDATE
UsUpdateSave(w) ==
  /\ us' \in UpdateSave(us, w)
  /\ UNCHANGED <<clock, gwVars, rlVars, ds, mwVars, am>>

\* db.Save, when its UPDATE matched no row: its INSERT ... ON DUPLICATE KEY UPDATE
UsUpdateInsert(w) ==
  /\ us' \in UpdateInsert(us, w)
  /\ UNCHANGED <<clock, gwVars, rlVars, ds, mwVars, am>>

\* DELETE /users?id=: GetByID
UsDeleteUser(w) ==
  /\ us' \in DeleteUser(us, w)
  /\ UNCHANGED <<clock, gwVars, rlVars, ds, mwVars, am>>

\* DELETE /users?id=: the DELETE
UsDelete(w) ==
  /\ us' \in DeleteUserDelete(us, w)
  /\ UNCHANGED <<clock, gwVars, rlVars, ds, mwVars, am>>

\* UserHandler.ChangePassword: GetByID and the password check
UsChangePassword(w) ==
  /\ us' \in ChangePassword(us, w)
  /\ UNCHANGED <<clock, gwVars, rlVars, ds, mwVars, am>>

\* UserHandler.VerifyEmail: GetByID
UsVerifyEmail(w) ==
  /\ us' \in VerifyEmail(us, w)
  /\ UNCHANGED <<clock, gwVars, rlVars, ds, mwVars, am>>

\* POST /auth/login, as the gateway's validateCredentials and other clients
\* call it: one query, on the table of that moment
UsLogin ==
  /\ \E method \in {"POST", "GET"}, body \in LoginBodies :
       us' = [us EXCEPT !.answer = UserServiceLogin(us.tbl, method, body)]
  /\ UNCHANGED <<clock, gwVars, rlVars, ds, mwVars, am>>

(***************************************************************************)
(* Specifications                                                          *)
(***************************************************************************)
\* the shared packages, no call in progress
PkgIdle ==
  /\ ds = DSIdle
  /\ al = AllowInput(<<>>, 0, MaxLimit, MaxWindow)
  /\ mw = MwIdle(MaxLimit, MaxWindow)
  /\ mwCall = [w \in RLWorkers |-> MwNoCall]
  /\ am = AmIdle
  /\ us = UsIdle

\* the gateway after NewRouter: no session, no request
GwIdle(table) ==
  /\ services = table
  /\ store = [s \in {} |-> [val |-> NoRec, exp |-> 0]]
  /\ issued = [s \in {} |-> [data |-> NoUser, loggedOut |-> FALSE, touchExp |-> NoTime]]
  /\ req = [w \in GwWorkers |-> NoReq]
  /\ h = [w \in GwWorkers |-> IdleH]
  /\ resp = [w \in GwWorkers |-> NoResp]
  /\ lookups = [w \in GwWorkers |-> <<>>]

\* the rate limiter after NewRateLimiter(limit, window)
RLIdle(limit, window) ==
  /\ rlLimit = limit
  /\ rlWindow = window
  /\ rlClients = << >>
  /\ rlMutex = Free
  /\ clMutex = << >>
  /\ rlPc = [w \in RLWorkers |-> "idle"]
  /\ rlArg = [w \in RLWorkers |-> ""]
  /\ rlNow = [w \in RLWorkers |-> 0]
  /\ rlLast = [w \in RLWorkers |-> NoCall]
  /\ rlStatus = [w \in RLWorkers |-> 0]
  /\ rlAdmitted = [c \in ClientIDs |-> <<>>]
  /\ rlCalls = 0

RLInit ==
  /\ clock = 0
  /\ \E limit \in 0..MaxLimit, window \in 1..MaxWindow : RLIdle(limit, window)
  /\ GwIdle(Targets)
  /\ PkgIdle

RLNext ==
  \/ \E w \in RLWorkers, c \in ClientIDs : RLCall(w, c)
  \/ \E w \in RLWorkers : RLLock(w)
  \/ \E w \in RLWorkers : RLLockClient(w)
  \/ \E w \in RLWorkers : RLPrune(w)
  \/ \E w \in RLWorkers : RLCheck(w)
  \/ \E w \in RLWorkers : RLAppend(w)
  \/ \E w \in RLWorkers : RLReturn(w)
  \/ \E w \in RLWorkers : RLAnswer(w)
  \/ RLTick

\* the rate limiter alone, under concurrent callers
SpecRL == RLInit /\ [][RLNext]_vars

\* the scheduling of the goroutines inside Allow: a goroutine that can run runs,
\* and a goroutine waiting in Lock gets the mutex if it is unlocked again and
\* again (sync.Mutex hands the mutex to a starving waiter)
RLFair ==
  \A w \in RLWorkers :
    /\ SF_vars(RLLock(w) \/ RLLockClient(w))
    /\ WF_vars(RLPrune(w) \/ RLCheck(w) \/ RLAppend(w) \/ RLReturn(w) \/ RLAnswer(w))

\* the rate limiter after NewRateLimiter(1, window) with the shortest window
RLInitFair ==
  /\ clock = 0
  /\ RLIdle(1, 1)
  /\ GwIdle(Targets)
  /\ PkgIdle

\* the rate limiter under concurrent callers and fair scheduling
SpecRLFair == RLInitFair /\ [][RLNext]_vars /\ RLFair

Init ==
  /\ clock = 0
  /\ RLIdle(MaxLimit, MaxWindow)
  /\ GwIdle(Targets)
  /\ PkgIdle

\* a gateway whose ServiceProxy was built without one of the targets
InitTables ==
  /\ clock = 0
  /\ RLIdle(MaxLimit, MaxWindow)
  /\ \E table \in ServiceTables \ {Targets} : GwIdle(table)
  /\ PkgIdle

GwStep(w, rqs, ids) ==
  \/ \E rq \in rqs : GwReceive(w, rq, ids)
  \/ GwGet(w)
  \/ GwSet(w)
  \/ GwRoute(w)
  \/ GwMux(w)
  \/ GwFinal(w)
  \/ GwLoginCall(w)
  \/ GwLoginCreate(w, ids)
  \/ GwLogoutDelete(w)
  \/ GwExtend(w)
  \/ GwDeleteAll(w)
  \/ GwDeleteAllGet(w)
  \/ GwDeleteAllDel(w)
  \/ GwDeadline(w)
  \/ GwReset(w)

Next ==
  \/ GwStep("g1", Requests, SessionIDs)
  \/ GwProbe("g1")
  \/ GwTick

\* the gateway serving one request at a time, over every route
Spec == Init /\ [][Next]_vars

\* the same, with a target missing from the table of the ServiceProxy
SpecTables == InitTables /\ [][Next]_vars

NextConc ==
  \/ GwStep("g1", ConcRequests \ LogoutRequests, SessionIDs)
  \/ GwStep("g2", RacingRequests, SessionIDs)
  \/ GwTick

InitConc ==
  /\ clock = 0
  /\ RLIdle(MaxLimit, MaxWindow)
  /\ GwIdle(Targets)
  /\ PkgIdle

\* the gateway serving two requests of one user concurrently
SpecConc == InitConc /\ [][NextConc]_vars

NextHealth ==
  \/ GwStep("g1", {rq \in Requests : rq.path = "/health"}, SessionIDs)
  \/ GwProbe("g1")
  \/ GwStep("g2", RacingRequests, SessionIDs)
  \/ GwTick

\* a health check of one client while the gateway serves another client
SpecHealth == InitConc /\ [][NextHealth]_vars

InitDS ==
  /\ clock = 0
  /\ RLIdle(MaxLimit, MaxWindow)
  /\ services = Targets
  /\ store \in DSStores
  /\ issued = [s \in {} |-> [data |-> NoUser, loggedOut |-> FALSE, touchExp |-> NoTime]]
  /\ req = [w \in GwWorkers |-> NoReq]
  /\ h = [w \in GwWorkers |-> IdleH]
  /\ resp = [w \in GwWorkers |-> NoResp]
  /\ lookups = [w \in GwWorkers |-> <<>>]
  /\ PkgIdle

NextDS ==
  \/ \E u \in Users : DSKeysCall(u.id)
  \/ DSGet
  \/ DSDel
  \/ DSReturn
  \/ DSOther

\* one DeleteSessions call on a store of several sessions, with the commands of
\* other clients in between
SpecDS == InitDS /\ [][NextDS]_vars

InitAllow ==
  /\ clock = 0
  /\ RLIdle(MaxLimit, MaxWindow)
  /\ GwIdle(Targets)
  /\ ds = DSIdle
  /\ mw = MwIdle(MaxLimit, MaxWindow)
  /\ mwCall = [w \in RLWorkers |-> MwNoCall]
  /\ am = AmIdle
  /\ us = UsIdle
  /\ \E now \in 0..MaxClock, limit \in 0..MaxLimit, window \in 1..MaxWindow :
       \E requests \in RequestSeqs(MaxSeqLen, now) :
         al = AllowInput(requests, now, limit, window)

NextAllow ==
  \/ AllowGateway
  \/ AllowShared

\* each limiter's Allow body on every input within the bounds
SpecAllow == InitAllow /\ [][NextAllow]_vars

InitMW ==
  /\ clock = 0
  /\ RLIdle(MaxLimit, MaxWindow)
  /\ GwIdle(Targets)
  /\ ds = DSIdle
  /\ al = AllowInput(<<>>, 0, MaxLimit, MaxWindow)
  /\ \E maxRequests \in 0..MaxLimit, window \in 1..MaxWindow :
       mw = MwIdle(maxRequests, window)
  /\ mwCall = [w \in RLWorkers |-> MwNoCall]
  /\ am = AmIdle
  /\ us = UsIdle

NextMW ==
  \/ \E w \in RLWorkers, c \in ClientIDs : MwCall(w, c)
  \/ \E w \in RLWorkers : MwCleanRead(w)
  \/ \E w \in RLWorkers : MwCleanWrite(w)
  \/ \E w \in RLWorkers : MwCheck(w)
  \/ \E w \in RLWorkers : MwAppendRead(w)
  \/ \E w \in RLWorkers : MwAppendWrite(w)
  \/ \E w \in RLWorkers : MwReturn(w)
  \/ MwFatal
  \/ MwTick

\* the shared limiter under concurrent callers
SpecMW == InitMW /\ [][NextMW]_vars

InitAdmin ==
  /\ clock = 0
  /\ RLIdle(MaxLimit, MaxWindow)
  /\ services = Targets
  /\ store \in AdminChainStores
  /\ issued = [s \in {} |-> [data |-> NoUser, loggedOut |-> FALSE, touchExp |-> NoTime]]
  /\ req = [w \in GwWorkers |-> NoReq]
  /\ h = [w \in GwWorkers |-> IdleH]
  /\ resp = [w \in GwWorkers |-> NoResp]
  /\ lookups = [w \in GwWorkers |-> <<>>]
  /\ ds = DSIdle
  /\ al = AllowInput(<<>>, 0, MaxLimit, MaxWindow)
  /\ mw = MwIdle(MaxLimit, MaxWindow)
  /\ mwCall = [w \in RLWorkers |-> MwNoCall]
  /\ \E rq \in Requests : am = [AmIdle EXCEPT !.pc = "session", !.req = rq]
  /\ us = UsIdle

NextAdmin ==
  \/ AmSessionAuth
  \/ AmGet
  \/ AmSet
  \/ AmOther
  \/ AmAdmin

\* one request through SessionAuthMiddleware(AdminMiddleware(next))
SpecAdmin == InitAdmin /\ [][NextAdmin]_vars

NextUsers ==
  \/ \E w \in UsWorkers : UsRegister(w)
  \/ \E w \in UsWorkers : UsRegisterCreate(w)
  \/ \E w \in UsWorkers : UsUpdateUser(w)
  \/ \E w \in UsWorkers : UsUpdateEmail(w)
  \/ \E w \in UsWorkers : UsUpdateSave(w)
  \/ \E w \in UsWorkers : UsUpdateInsert(w)
  \/ \E w \in UsWorkers : UsDeleteUser(w)
  \/ \E w \in UsWorkers : UsDelete(w)
  \/ \E w \in UsWorkers : UsChangePassword(w)
  \/ \E w \in UsWorkers : UsVerifyEmail(w)
  \/ UsLogin

\* the user service on its own, its requests overlapping; the gateway's login reads
\* a table of UserTables, the tables this specification reaches
SpecUsers == Init /\ [][NextUsers]_vars

\* every table the user service reaches within MaxUserOps requests is one the
\* gateway's login is tried against
UserTablesCover == us.tbl \in UserTables

NextPanic ==
  \/ Next
  \/ GwPanic("g1")

\* the gateway serving one request at a time, where any layer may panic
SpecPanic == Init /\ [][NextPanic]_vars

(***************************************************************************)
(* Claims about the rate limiter (checked under SpecRL)                    *)
(***************************************************************************)
\* the admitted timestamps of the client of call `l` that lay inside the window
\* ending at the call: the earlier admitted calls the sliding-window rule counts
InWindowBefore(l) ==
  {i \in 1..l.before : rlAdmitted[l.client][i] > l.now - rlWindow}

\* C9: for every client the number of recorded timestamps is at most the limit; a
\* call is admitted only when fewer than limit timestamps remained after pruning;
\* and every Allow call prunes before it checks: once its body has run, no recorded
\* timestamp of the client is at or before now - window.
C9_LengthWithinLimit ==
  /\ \A c \in DOMAIN rlClients : Len(rlClients[c]) <= rlLimit
  /\ \A w \in RLWorkers :
       (rlLast[w].client # "" /\ rlLast[w].ok) => rlLast[w].kept < rlLimit
  /\ \A w \in RLWorkers :
       rlPc[w] = "unlock" =>
         /\ \A i \in 1..Len(rlClients[rlArg[w]]) :
              rlClients[rlArg[w]][i] > rlNow[w] - rlWindow
         /\ rlLast[w].kept = Cardinality(InWindowBefore(rlLast[w]))

\* a call was admitted after pruning dropped an older timestamp, and the client's
\* sequence is full again
C9_Witness ==
  \E w \in RLWorkers :
    /\ rlPc[w] = "unlock"
    /\ rlLast[w].ok
    /\ rlLast[w].before > rlLast[w].kept
    /\ Len(rlClients[rlArg[w]]) = rlLimit

\* C10: an Allow call of client c at time now is admitted iff fewer than limit of
\* c's earlier admitted calls lie inside the window ending at now (so the first L
\* calls in a window are admitted, the next one in it is rejected, a call after the
\* window has elapsed is admitted again, and only c's own history counts); RateLimit
\* answers 429 exactly for the rejected calls.
C10_SlidingWindowRule ==
  \A w \in RLWorkers :
    rlLast[w].client # "" =>
      /\ rlLast[w].ok = (Cardinality(InWindowBefore(rlLast[w])) < rlLimit)
      /\ (rlLimit >= 1 /\ rlLast[w].before < rlLimit) => rlLast[w].ok
      /\ (rlLimit >= 1 /\ InWindowBefore(rlLast[w]) = {}) => rlLast[w].ok
      /\ (rlPc[w] = "idle" /\ rlStatus[w] # 0) =>
           rlStatus[w] = IF rlLast[w].ok THEN StatusOK ELSE StatusTooManyRequests

\* client c was rejected with 429 at its limit, the other client was admitted
\* meanwhile, and c is admitted again once the window has elapsed
C10_Witness ==
  \E w, v \in RLWorkers :
    /\ w # v
    /\ rlLimit >= 1
    /\ rlLast[w].ok
    /\ rlLast[w].before >= rlLimit
    /\ rlLast[v].client = rlLast[w].client
    /\ rlStatus[v] = StatusTooManyRequests
    /\ \E c \in ClientIDs : c # rlLast[w].client /\ rlAdmitted[c] # <<>>

\* the positions of Allow between taking and releasing the client's lock
InAllowBody == {"prune", "check", "append", "unlock"}

\* the admitted calls of client c whose timestamps lie in the window ending at t
AdmittedInWindow(c, t) ==
  {i \in 1..Len(rlAdmitted[c]) : rlAdmitted[c][i] > t - rlWindow /\ rlAdmitted[c][i] <= t}

\* C12: the prune, check and append steps of Allow are atomic among the calls of
\* one client: two calls for the same client are never between Lock and Unlock
\* together; when a call releases the lock, the client's sequence and the call's
\* verdict are those of prune + check + append applied in one piece to the
\* sequence the call found; and under every interleaving no window holds more
\* than limit admitted timestamps of one client.
C12_AllowAtomicPerClient ==
  /\ \A w, v \in RLWorkers :
       (w # v /\ rlPc[w] \in InAllowBody /\ rlPc[v] \in InAllowBody) => rlArg[w] # rlArg[v]
  /\ \A w \in RLWorkers :
       rlPc[w] = "unlock" =>
         LET r == AllowBody(rlLast[w].seen, rlNow[w], rlLimit, rlWindow)
         IN  rlClients[rlArg[w]] = r.requests /\ rlLast[w].ok = r.ok
  /\ \A c \in ClientIDs : \A t \in 0..clock :
       Cardinality(AdmittedInWindow(c, t)) <= rlLimit

\* a burst of one client: one call is about to append the last timestamp the limit
\* allows while another call for the same client waits for the lock
C12_Witness ==
  \E w, v \in RLWorkers :
    /\ w # v
    /\ rlArg[w] = rlArg[v]
    /\ rlPc[w] = "append"
    /\ rlPc[v] = "lock_rl"
    /\ rlLimit >= 1
    /\ Len(rlClients[rlArg[w]]) = rlLimit - 1

\* C13 as stated: an Allow call is never blocked on a lock held by an Allow call in
\* progress for a different client.
C13_NoCrossClientBlocking ==
  \A w, v \in RLWorkers :
    (w # v /\ rlPc[w] = "lock_rl" /\ rlMutex = v) => rlArg[v] = rlArg[w]

(***************************************************************************)
(* Claims about the auth gates (checked under Spec)                        *)
(***************************************************************************)
\* the Timeout layer's 408 was the first write of the response of worker w
TimeoutFirst(w) == resp[w].writers # <<>> /\ Head(resp[w].writers) = "timeout"

\* none of the three transports carries a session id
NoCredential(rq) ==
  /\ ExtractSessionIDFromRequest(rq) = ""
  /\ RouterExtractSessionID(rq) = ""
  /\ AuthHandlerExtractSessionID(rq) = ""

\* the first ValidateSession call of the request found no stored session
Unresolved(w) == lookups[w] # <<>> /\ ~lookups[w][1].found

NoValidCredential(w) == NoCredential(req[w]) \/ Unresolved(w)

\* a route that requires authentication: not exempted by the middleware's skip
\* rule, or one of the user routes the route handler protects
AuthRequired(rq) ==
  /\ rq # NoReq
  /\ ~SkipsAuth(rq) \/ IsProtectedRoute(rq.path, ProtectedUserRoutes)

\* C1 as stated: every request to a route that requires authentication, without a
\* credential or with one that resolves to no stored session, is answered 401 and
\* never reaches ProxyToService.
C1_Original ==
  \A w \in GwWorkers :
    (AuthRequired(req[w]) /\ NoValidCredential(w)) =>
      /\ ~resp[w].proxied
      /\ h[w].pc = "done" => resp[w].status = StatusUnauthorized

\* C1: a request to a route that requires authentication, without a credential or
\* with one that resolves to no stored session, never reaches ProxyToService and
\* nothing is sent upstream; it is answered 401, except that an OPTIONS request is
\* answered 200 by the CORS layer before any session lookup, and that on the
\* routes the middleware skips and the route handler protects (POST on
\* /api/v1/users/{profile,change-password,upload-avatar}) it is answered 408 when
\* the deadline passes before the handler's check has answered.
C1_UnauthorizedWithoutCredential ==
  \A w \in GwWorkers :
    (AuthRequired(req[w]) /\ NoValidCredential(w)) =>
      /\ ~resp[w].proxied
      /\ resp[w].upstream = NoUpstream
      /\ h[w].pc = "done" =>
           resp[w].status =
             IF req[w].method = "OPTIONS" THEN StatusOK
             ELSE IF TimeoutFirst(w) THEN StatusRequestTimeout
             ELSE StatusUnauthorized
      /\ h[w].timedOut => (SkipsAuth(req[w]) /\ req[w].method # "OPTIONS")
      /\ req[w].method = "OPTIONS" => lookups[w] = <<>>

\* a request with the cookie of a session that was issued and is gone from the
\* store is answered 401
C1_Witness ==
  \E w \in GwWorkers :
    /\ AuthRequired(req[w])
    /\ Unresolved(w)
    /\ lookups[w][1].sid \in DOMAIN issued
    /\ h[w].pc = "done"
    /\ resp[w].status = StatusUnauthorized
    /\ ~resp[w].proxied

\* a route whose auth requirement is none, as the claim lists them
NoneAuthRoute(rq) ==
  \/ HasPrefix(rq.path, "/health")
  \/ HasPrefix(rq.path, "/docs")
  \/ HasPrefix(rq.path, "/api/v1/webhooks/")
  \/ rq.method = "POST" /\ rq.path \in {"/api/v1/auth/login", "/api/v1/auth/register"}
  \/ rq.method = "GET" /\ \/ HasPrefix(rq.path, "/api/v1/products")
                          \/ HasPrefix(rq.path, "/api/v1/categories")

\* C2 as stated: for a request to a route whose auth requirement is none, no
\* session lookup is performed and the request is served or forwarded (it is not
\* turned away by an auth gate), with or without a credential.
C2_NoLookupOnOpenRoutes ==
  \A w \in GwWorkers :
    NoneAuthRoute(req[w]) =>
      /\ lookups[w] = <<>>
      /\ resp[w].status \notin {StatusUnauthorized, StatusForbidden}
         \/ resp[w].proxied

\* an admin-gated route, as the claim lists them
AdminGated(rq) ==
  \/ HasPrefix(rq.path, "/api/v1/admin/")
  \/ IsProtectedRoute(rq.path, AdminOrderRoutes)
  \/ /\ rq.method \in ProductWriteMethods
     /\ \/ HasPrefix(rq.path, "/api/v1/products")
        \/ HasPrefix(rq.path, "/api/v1/categories")

\* every ValidateSession call the admin-gated request makes (middleware,
\* isAuthenticated, isAdmin) has found and returned the session
ResolvedThroughout(w) ==
  /\ Len(lookups[w]) = 3
  /\ \A i \in 1..3 : lookups[w][i].found /\ lookups[w][i].ok

\* the role of the session the request's credential names
SessionRole(w) ==
  IF lookups[w] # <<>> /\ lookups[w][1].sid \in DOMAIN issued
  THEN issued[lookups[w][1].sid].data.role ELSE ""

\* C3 as stated: on an admin-gated route a request without a valid session is
\* answered 401, one with a valid session whose role is not admin is answered 403,
\* and neither reaches ProxyToService.
C3_Original ==
  \A w \in GwWorkers :
    (AdminGated(req[w]) /\ h[w].pc = "done") =>
      /\ NoValidCredential(w) => resp[w].status = StatusUnauthorized
      /\ (ResolvedThroughout(w) /\ SessionRole(w) # "admin") =>
           resp[w].status = StatusForbidden
      /\ (NoValidCredential(w) \/ SessionRole(w) # "admin") => ~resp[w].proxied

\* C3: on an admin-gated route, a request other than OPTIONS without a credential
\* or whose credential resolves to no stored session is answered 401; one whose
\* session resolves at every check and has a role other than "admin" is answered
\* 403, or 408 when the deadline passes before the route handler's checks have
\* answered; an OPTIONS request is answered 200 by the CORS layer; in every one of
\* these cases ProxyToService is not invoked.
C3_AdminGate ==
  \A w \in GwWorkers :
    AdminGated(req[w]) =>
      /\ (NoValidCredential(w) \/ SessionRole(w) # "admin") =>
           ~resp[w].proxied /\ resp[w].upstream = NoUpstream
      /\ h[w].pc = "done" =>
           /\ req[w].method = "OPTIONS" => resp[w].status = StatusOK
           /\ (req[w].method # "OPTIONS" /\ NoValidCredential(w)) =>
                resp[w].status = StatusUnauthorized
           /\ (ResolvedThroughout(w) /\ SessionRole(w) # "admin") =>
                resp[w].status =
                  IF TimeoutFirst(w) THEN StatusRequestTimeout ELSE StatusForbidden

\* a user with a live session and a role other than "admin" was answered 403 on
\* an admin-gated route after all three lookups found the session
C3_Witness ==
  \E w \in GwWorkers :
    /\ AdminGated(req[w])
    /\ ResolvedThroughout(w)
    /\ SessionRole(w) = USER
    /\ h[w].pc = "done"
    /\ resp[w].status = StatusForbidden
    /\ ~resp[w].proxied

\* C4 as stated: the session Login stores for a user whose role in the user
\* service is ADMIN is one for which IsAdmin returns true.
C4_AdminRoleRecognised ==
  \A s \in DOMAIN store :
    (s \in DOMAIN issued /\ issued[s].data.role = ADMIN) => IsAdmin(TRUE, store[s].val)

(***************************************************************************)
(* Claims about the forwarder (checked under Spec)                         *)
(***************************************************************************)
\* C7: the request an upstream receives has no Cookie header and no Authorization
\* header, whatever the inbound request carried.
C7_CookieAndAuthorizationStripped ==
  \A w \in GwWorkers :
    resp[w].upstream # NoUpstream =>
      /\ "Cookie" \notin DOMAIN resp[w].upstream.headers
      /\ "Authorization" \notin DOMAIN resp[w].upstream.headers

\* a request that came with a Cookie and an Authorization header was relayed
C7_Witness ==
  \E w \in GwWorkers :
    /\ resp[w].upstream # NoUpstream
    /\ HGet(req[w].headers, "Cookie") # ""
    /\ HGet(req[w].headers, "Authorization") # ""

\* the inbound request without its credential headers
StripCredentials(rq) ==
  [rq EXCEPT !.headers = HDel(HDel(HDel(@, "Cookie"), "Authorization"), "X-Session-ID")]

\* C8 as stated: the session id the client supplied is in no header of the
\* request the upstream receives, and the outbound request is the one the same
\* inbound request without its credential would produce.
C8_NoCredentialUpstream ==
  \A w \in GwWorkers :
    resp[w].upstream # NoUpstream =>
      /\ \A k \in DOMAIN resp[w].upstream.headers :
           \A sid \in {ExtractSessionIDFromRequest(req[w])} \ {""} :
             ~Contains(resp[w].upstream.headers[k], sid)
      /\ resp[w].upstream = Outbound(StripCredentials(req[w]), h[w].final)

(***************************************************************************)
(* Claims about the session life cycle (checked under SpecConc)            *)
(***************************************************************************)
\* the session id of the request's session_id cookie
CookieSession(rq) == ReqCookie(rq, "session_id").value

\* C5 as stated: GET /api/v1/auth/me with the cookie of a login, at a point at which
\* the session has been neither logged out nor expired (every lookup of the request
\* finds it in the store), is answered 200 with the user_id, email, role and name
\* the user service returned for that login.
C5_MeReturnsLoginIdentity ==
  \A w \in GwWorkers :
    ( /\ req[w].method = "GET"
      /\ req[w].path = "/api/v1/auth/me"
      /\ h[w].pc = "done"
      /\ lookups[w] # <<>>
      /\ \A i \in 1..Len(lookups[w]) : lookups[w][i].found /\ ~lookups[w][i].late ) =>
      /\ resp[w].status = StatusOK
      /\ CookieSession(req[w]) \in DOMAIN issued
      /\ resp[w].body.user_id = issued[CookieSession(req[w])].data.id
      /\ resp[w].body.email = issued[CookieSession(req[w])].data.email
      /\ resp[w].body.role = issued[CookieSession(req[w])].data.role
      /\ resp[w].body.name = issued[CookieSession(req[w])].data.name

\* C6 as stated: once a Logout of session s has completed with its store delete
\* done, a resolution of s that starts afterwards fails (no login re-creates s:
\* ids are never reissued).
C6_NoResolutionAfterLogout ==
  \A w \in GwWorkers :
    \A i \in 1..Len(lookups[w]) :
      lookups[w][i].late => (~lookups[w][i].ok /\ ~lookups[w][i].found)

(***************************************************************************)
(* Claims about the middleware chain (checked under Spec)                  *)
(***************************************************************************)
\* C11 as stated: every request that reaches ProxyToService was admitted by
\* RateLimiter.Allow for its client.
C11_ForwardedOnlyIfAdmitted ==
  \A w \in GwWorkers :
    resp[w].proxied => \E c \in ClientIDs : rlAdmitted[c] # <<>>

\* the writers of the response of worker w, in order
Wrote(w, who) == \E i \in 1..Len(resp[w].writers) : resp[w].writers[i] = who

\* C14 as stated: a panic in any layer beneath Recovery is answered with a 500
\* envelope and ends neither the process nor the handling of other requests.
C14_PanicContained ==
  \A w \in GwWorkers :
    /\ h[w].pc # "crashed"
    /\ Wrote(w, "recovery") => resp[w].status = StatusInternalServerError

\* C15 as stated: when the handler has not finished at the deadline the Timeout
\* layer writes the RequestTimeout envelope and the client is answered 408; when
\* the handler has finished (it has written its answer and returned) before the
\* deadline, no timeout error is written after its answer.
C15_TimeoutOnDeadlineOnly ==
  \A w \in GwWorkers :
    /\ h[w].timedOut <=> Wrote(w, "timeout")
    /\ h[w].timedOut => resp[w].status = StatusRequestTimeout
    /\ \A i \in 1..Len(resp[w].writers) : resp[w].writers[i] = "timeout" => i = 1
    /\ (h[w].pc = "done" /\ ~h[w].timedOut) => resp[w].status # StatusRequestTimeout

\* the order the claim gives, outermost first
ClaimedOrder == <<"recovery", "timeout", "requestid", "cors", "auth", "security">>

Position(seq, x) == CHOOSE i \in 1..Len(seq) : seq[i] = x

InSeq(seq, x) == \E i \in 1..Len(seq) : seq[i] = x

\* the session middleware's store lookup is in progress
MiddlewareLookup(hw) == hw.pc \in {"get", "set"} /\ hw.phase = "mw"

\* C16 as stated: the layers are entered in the order panic containment, timeout,
\* request-ID assignment, CORS, auth dispatch, security headers; the deadline
\* covers the auth gate's session lookup; the IDs are assigned before the auth
\* gate runs.
C16_Original ==
  \A w \in GwWorkers :
    /\ \A i, j \in 1..Len(h[w].entered) :
         ( /\ i < j
           /\ InSeq(ClaimedOrder, h[w].entered[i])
           /\ InSeq(ClaimedOrder, h[w].entered[j]) ) =>
           Position(ClaimedOrder, h[w].entered[i]) < Position(ClaimedOrder, h[w].entered[j])
    /\ MiddlewareLookup(h[w]) => InSeq(h[w].entered, "timeout")
    /\ InSeq(h[w].entered, "auth") => resp[w].request_id # ""

\* C16: the layers are entered in the order Recovery, Logging, CORS, session auth,
\* request-ID headers, security headers, Timeout, ServeMux; an OPTIONS request
\* stops at CORS; the deadline is armed only from the Timeout layer on, so it never
\* passes during the session middleware's lookup and 408 is written only for
\* requests that reached the route dispatcher; the response carries the request ID
\* Logging assigned whenever the auth gate has run.
C16_ChainOrder ==
  \A w \in GwWorkers :
    /\ \E n \in 0..8 :
         h[w].entered =
           SubSeq(<<"recovery", "logging", "cors", "auth", "requestid", "security",
                    "timeout", "mux">>, 1, n)
    /\ req[w].method = "OPTIONS" => ~InSeq(h[w].entered, "auth")
    /\ MiddlewareLookup(h[w]) => (~InSeq(h[w].entered, "timeout") /\ ~h[w].timedOut)
    /\ (h[w].timedOut \/ Wrote(w, "timeout")) => InSeq(h[w].entered, "timeout")
    /\ InSeq(h[w].entered, "auth") => resp[w].request_id = GenRequestID

\* a request passed the session middleware's lookup, reached its handler and was
\* timed out there
C16_Witness ==
  \E w \in GwWorkers :
    /\ h[w].timedOut
    /\ lookups[w] # <<>>
    /\ lookups[w][1].phase = "mw"
    /\ lookups[w][1].ok
    /\ h[w].entered = ChainOrder

\* C17 as stated: an X-Request-ID that came with the request is the X-Request-ID of
\* the response and of the request relayed upstream.
C17_RequestIDPreserved ==
  \A w \in GwWorkers :
    HGet(req[w].headers, "X-Request-ID") # "" =>
      /\ resp[w].status # 0 => resp[w].request_id = HGet(req[w].headers, "X-Request-ID")
      /\ resp[w].upstream # NoUpstream =>
           HGet(resp[w].upstream.headers, "X-Request-ID") =
             HGet(req[w].headers, "X-Request-ID")

\* C20 as stated: an unknown target and an unreachable target are both answered
\* with the upstream-unavailable error (502), and for an unknown target nothing
\* is sent upstream.
C20_UnknownTargetAsUnavailable ==
  \A w \in GwWorkers :
    (resp[w].forward \in {"unknown", "unreachable"} /\ ~h[w].timedOut) =>
      /\ resp[w].status = StatusBadGateway
      /\ resp[w].upstream = NoUpstream

(***************************************************************************)
(* Claims about the session touch                                          *)
(***************************************************************************)
\* the step in which the lookup in progress of worker w ends with its touch done
TouchDone(w) ==
  /\ lookups[w] # <<>>
  /\ Len(lookups'[w]) = Len(lookups[w])
  /\ lookups[w][Len(lookups[w])].touch = ""
  /\ lookups'[w][Len(lookups[w])].touch = "ok"

\* C18: every successful resolution leaves the session in the store with the
\* expiry (instant of the touch + TTL), and that expiry is no earlier than the one
\* the previous successful resolution of the session set.
C18_TouchResetsExpiry ==
  [][\A w \in GwWorkers :
       TouchDone(w) =>
         LET sid == lookups[w][Len(lookups[w])].sid
         IN  /\ sid \in DOMAIN store'
             /\ store'[sid].exp = clock + SessionTTL
             /\ sid \in DOMAIN issued =>
                  /\ issued'[sid].touchExp = store'[sid].exp
                  /\ store'[sid].exp >= issued[sid].touchExp]_vars

\* one request resolved a session twice; the session was created at instant 0 and
\* the second resolution has moved its expiry to a later instant than the first
\* one can have set when the request came in
C18_Witness ==
  \E w \in GwWorkers :
    /\ Len(lookups[w]) >= 2
    /\ lookups[w][1].touch = "ok"
    /\ lookups[w][2].touch = "ok"
    /\ lookups[w][1].sid = lookups[w][2].sid
    /\ lookups[w][2].sid \in DOMAIN store
    /\ store[lookups[w][2].sid].exp = issued[lookups[w][2].sid].touchExp
    /\ issued[lookups[w][2].sid].touchExp = MaxSessionClock + SessionTTL

\* C19 as stated: when the session was found and the touch that follows fails,
\* the resolution still succeeds.
C19_TouchFailureTolerated ==
  \A w \in GwWorkers :
    \A i \in 1..Len(lookups[w]) :
      lookups[w][i].touch = "failed" => lookups[w][i].ok

(***************************************************************************)
(* Claims about the error envelope (checked under SpecPanic)               *)
(***************************************************************************)
\* the parties of the gateway that answer a request themselves: utils.SendError in
\* the handlers and the forwarder, the auth gate, Timeout, Recovery
GatewayWriters == {"handler", "auth", "timeout", "recovery"}

\* the status codes the claim lists
ClaimedStatuses == {400, 401, 403, 404, 405, 409, 422, 429, 500, 501, 502, 503, 504}

\* the status codes probed on SendError, listed or not
ProbedStatusCodes == ClaimedStatuses \cup {100, 200, 301, 402, 408, 418, 505}

\* worker w's request was answered with an error by the gateway's own code
GatewayError(w) ==
  /\ resp[w].status >= StatusBadRequest
  /\ resp[w].writers[1] \in GatewayWriters

\* C21 as stated: every error response the gateway produces is the error envelope
\* with a status among 400, 401, 403, 404, 405, 409, 422, 429, 500..504.
C21_Original ==
  \A w \in GwWorkers :
    GatewayError(w) =>
      /\ resp[w].envelope.status = "error"
      /\ resp[w].envelope.error # ""
      /\ resp[w].status \in ClaimedStatuses

\* C21: every error response the gateway produces is the error envelope, with the
\* error code of its status, and its status is among 400, 401, 403, 404, 405, 408,
\* 409, 422, 429, 500..504: the listed ones and 408, which the Timeout layer
\* answers; SendError turns any status outside that list into 500.
C21_ErrorEnvelope ==
  /\ \A w \in GwWorkers :
       GatewayError(w) =>
         /\ resp[w].envelope.status = "error"
         /\ resp[w].envelope.error # ""
         /\ resp[w].status \in ClaimedStatuses \cup {StatusRequestTimeout}
         /\ resp[w].status = StatusRequestTimeout <=> resp[w].writers[1] = "timeout"
  /\ \A c \in ProbedStatusCodes :
       /\ NewAppError(c).status \in ClaimedStatuses \cup {StatusRequestTimeout}
       /\ NewAppError(c).code # ""

\* the Timeout layer has answered a request with 408 and the REQUEST_TIMEOUT
\* envelope
C21_Witness ==
  \E w \in GwWorkers :
    /\ GatewayError(w)
    /\ resp[w].writers[1] = "timeout"
    /\ resp[w].envelope = [status |-> "error", error |-> "REQUEST_TIMEOUT"]

(***************************************************************************)
(* Claims about the health endpoint (checked under Spec)                   *)
(***************************************************************************)
\* worker w's request was answered by Router.handleHealthCheck
HealthAnswered(w) == resp[w].health # NoHealth

\* C22 as stated: the health endpoint probes each upstream on each call and
\* reports for each service whether its probe returned 200; when a probe fails the
\* status it reports is degraded, not healthy.
C22_HealthReflectsProbes ==
  \A w \in GwWorkers :
    HealthAnswered(w) =>
      /\ DOMAIN resp[w].health.services = Targets
      /\ \A t \in Targets :
           resp[w].health.services[t] = (resp[w].health.probes[t] = StatusOK)
      /\ (\E t \in Targets : resp[w].health.probes[t] # StatusOK) =>
           resp[w].health.status # "healthy"

(***************************************************************************)
(* Claims about Logout (checked under Spec)                                *)
(***************************************************************************)
\* C23 as stated: when the Logout handler runs with a non-empty credential the
\* response is 200 with the success envelope and the session_id cookie cleared
\* (Max-Age < 0), whether DeleteSession succeeded or returned an error.
C23_Original ==
  \A w \in GwWorkers :
    resp[w].logout # "" =>
      /\ resp[w].status = StatusOK
      /\ resp[w].envelope = SuccessEnvelope
      /\ resp[w].cookie.value = ""
      /\ resp[w].cookie.max_age < 0

\* C23: once the Logout handler has run its DeleteSession for a non-empty
\* credential, it answers 200 with the success envelope and the session_id cookie
\* cleared (Max-Age < 0), whether the delete succeeded or returned an error; that
\* answer is the response of the request unless the Timeout layer's 408 was
\* written before it, and then the response is that 408.
C23_LogoutBestEffort ==
  \A w \in GwWorkers :
    resp[w].logout # "" =>
      /\ AuthHandlerExtractSessionID(req[w]) # ""
      /\ Wrote(w, "handler")
      /\ ~TimeoutFirst(w) =>
           /\ resp[w].status = StatusOK
           /\ resp[w].envelope = SuccessEnvelope
           /\ resp[w].cookie.value = ""
           /\ resp[w].cookie.max_age < 0
      /\ TimeoutFirst(w) =>
           /\ resp[w].status = StatusRequestTimeout
           /\ resp[w].envelope # SuccessEnvelope

\* the delete failed with the deadline not passed: the session is still in the
\* store and the logout was answered 200 with the cookie cleared
C23_Witness ==
  \E w \in GwWorkers :
    /\ resp[w].logout = "failed"
    /\ ~h[w].timedOut
    /\ AuthHandlerExtractSessionID(req[w]) \in DOMAIN store
    /\ resp[w].status = StatusOK
    /\ resp[w].cookie.max_age < 0

(***************************************************************************)
(* Claims about the credential extraction (checked under Spec)             *)
(***************************************************************************)
\* the precedence the claim gives: the session_id cookie when present and not
\* empty, else the token of "Authorization: Bearer <token>", else X-Session-ID
ClaimedCredential(rq) ==
  LET c == HGet(rq.headers, "Cookie")
      a == HGet(rq.headers, "Authorization")
      cookieValue == IF HasPrefix(c, "session_id=") THEN TrimPrefix(c, "session_id=") ELSE ""
      token == IF HasPrefix(a, "Bearer ") THEN TrimPrefix(a, "Bearer ") ELSE ""
  IN  IF cookieValue # "" THEN cookieValue
      ELSE IF token # "" THEN token
      ELSE HGet(rq.headers, "X-Session-ID")

\* the session middleware has extracted the credential of worker w's request: the
\* request is past CORS and not exempted by the skip rule
GateExtracted(w) == InSeq(h[w].entered, "auth") /\ ~SkipsAuth(req[w])

\* C24: the session middleware resolves the credential the precedence gives (cookie,
\* then bearer token, then X-Session-ID: the first match wins), and when the
\* request carries none of the three it answers 401 with the error envelope at
\* once, without any session-store lookup.
C24_CredentialPrecedence ==
  \A w \in GwWorkers :
    GateExtracted(w) =>
      /\ \A i \in 1..Len(lookups[w]) :
           lookups[w][i].phase = "mw" =>
             (i = 1 /\ lookups[w][i].sid = ClaimedCredential(req[w]))
      /\ ClaimedCredential(req[w]) # "" =>
           (lookups[w] # <<>> /\ lookups[w][1].phase = "mw") \/ h[w].pc = "get"
      /\ ClaimedCredential(req[w]) = "" =>
           /\ lookups[w] = <<>>
           /\ h[w].pc = "done"
           /\ resp[w].status = StatusUnauthorized
           /\ resp[w].writers = <<"auth">>
           /\ resp[w].envelope = [status |-> "error", error |-> "UNAUTHORIZED"]

\* a request with the cookie of one session and the bearer token of another was
\* resolved by its cookie
C24_Witness ==
  \E w \in GwWorkers :
    /\ GateExtracted(w)
    /\ HGet(req[w].headers, "Cookie") = "session_id=s1"
    /\ HGet(req[w].headers, "Authorization") = "Bearer zz"
    /\ lookups[w] # <<>>
    /\ lookups[w][1].phase = "mw"
    /\ lookups[w][1].sid = "s1"
    /\ lookups[w][1].ok

(***************************************************************************)
(* Claims about route matching (checked under Spec)                        *)
(***************************************************************************)
\* the registered patterns that select a handler for the path: a pattern ending in
\* "/" names a subtree, any other pattern one path
PatternsFor(path) ==
  {rt \in MuxRoutes :
     IF SubSeq(rt[1], Len(rt[1]), Len(rt[1])) = "/"
     THEN Len(rt[1]) <= Len(path) /\ SubSeq(path, 1, Len(rt[1])) = rt[1]
     ELSE rt[1] = path}

\* the path matches no registered route
Unrouted(path) == PatternsFor(path) = {}

\* the path is the root of a registered subtree, named without its slash
SubtreeRoot(path) == \E rt \in MuxRoutes : rt[1] = path \o "/"

\* C25 as stated: route matching precedes the auth gate, and a request whose path
\* matches no registered route ends with 404, with or without a credential.
C25_Original ==
  \A w \in GwWorkers :
    /\ lookups[w] # <<>> => h[w].handler # ""
    /\ (req[w] # NoReq /\ Unrouted(req[w].path) /\ h[w].pc = "done") =>
         resp[w].status = StatusNotFound

\* C25: the route is matched by the ServeMux beneath the middleware chain, after
\* the session auth gate. A request whose path matches no registered route ends
\* with 200 from CORS when its method is OPTIONS, else with the gate's 401 when it
\* does not pass the gate; when it passes (its path is exempted by the skip rule,
\* or its credential resolves) it ends with 408 when the Timeout layer writes
\* before the ServeMux has answered, else with the ServeMux's 301 when the path is
\* the root of a registered subtree named without its slash, else with 404. An
\* exact pattern matches its path only, a pattern ending in "/" matches by prefix,
\* and the longest matching pattern selects the handler.
C25_RouteMatching ==
  \A w \in GwWorkers :
    /\ h[w].handler # "" => h[w].entered = ChainOrder
    /\ (lookups[w] # <<>> /\ lookups[w][1].phase = "mw" /\ ~lookups[w][1].ok) =>
         h[w].handler = ""
    /\ (req[w] # NoReq /\ Unrouted(req[w].path) /\ h[w].pc = "done") =>
         /\ resp[w].status =
              IF req[w].method = "OPTIONS" THEN StatusOK
              ELSE IF SkipsAuth(req[w]) \/ (lookups[w] # <<>> /\ lookups[w][1].ok)
              THEN IF TimeoutFirst(w) THEN StatusRequestTimeout
                   ELSE IF SubtreeRoot(req[w].path) THEN StatusMovedPermanently
                   ELSE StatusNotFound
              ELSE StatusUnauthorized
         /\ resp[w].status \in {StatusNotFound, StatusMovedPermanently}
              <=> Head(resp[w].writers) = "mux"
         /\ ~resp[w].proxied
    /\ h[w].handler \notin {"", "notfound", "redirect"} =>
         \E rt \in PatternsFor(req[w].path) :
           /\ rt[2] = h[w].handler
           /\ \A o \in PatternsFor(req[w].path) : Len(o[1]) <= Len(rt[1])
    /\ h[w].handler = "notfound" <=>
         (h[w].entered = ChainOrder /\ Unrouted(req[w].path) /\ ~SubtreeRoot(req[w].path))
    /\ h[w].handler = "redirect" <=>
         (h[w].entered = ChainOrder /\ Unrouted(req[w].path) /\ SubtreeRoot(req[w].path))

\* a request with the cookie of a live session for a path that only extends the
\* exact pattern /health passed the gate and was answered 404 by the ServeMux
C25_Witness ==
  \E w \in GwWorkers :
    /\ req[w].path = "/healthz"
    /\ HGet(req[w].headers, "Cookie") = "session_id=s1"
    /\ h[w].handler = "notfound"
    /\ resp[w].status = StatusNotFound
    /\ resp[w].writers = <<"mux">>

(***************************************************************************)
(* Claims about path rewriting (checked under Spec)                        *)
(***************************************************************************)
\* the internal path the claim names for an external path
ClaimedRewrite(path) ==
  CASE path = "/api/v1/auth/register" -> "/auth/register"
    [] path = "/api/v1/auth/forgot-password" -> "/auth/forgot-password"
    [] path = "/api/v1/auth/reset-password" -> "/auth/reset-password"
    [] OTHER ->
         IF Len(path) >= 14 /\ SubSeq(path, 1, 14) = "/api/v1/admin/"
         THEN SubSeq(path, 14, Len(path))
         ELSE IF Len(path) >= 7 /\ SubSeq(path, 1, 7) = "/api/v1"
         THEN SubSeq(path, 8, Len(path))
         ELSE path

\* the request is in a gate check of its route handler
InRouteGate(w) == h[w].pc \in {"get", "set"} /\ h[w].phase \in {"auth", "admin"}

\* a gate check of the route handler has failed
GateFailed(w) ==
  \E i \in 1..Len(lookups[w]) :
    /\ lookups[w][i].phase \in {"auth", "admin"}
    /\ ~lookups[w][i].ok
    /\ ~(i = Len(lookups[w]) /\ InRouteGate(w))

\* C26: in every route handler the request path is rewritten only after all the
\* gates of the route have passed: every gate check reads the original external
\* path, the path is unchanged while a gate is being checked and up to the
\* forwarding step, a request rejected by a gate (or answered by the handler
\* itself) keeps its path, and a forwarded request has the external prefix
\* stripped or replaced as the claim names.
C26_RewriteAfterGates ==
  \A w \in GwWorkers :
    req[w] # NoReq =>
      /\ \A i \in 1..Len(h[w].seen) : h[w].seen[i] = req[w].path
      /\ Len(h[w].seen) >=
           Cardinality({i \in 1..Len(lookups[w]) :
                          lookups[w][i].phase \in {"auth", "admin"}})
      /\ h[w].pc # "done" => h[w].url = req[w].path
      /\ GateFailed(w) => h[w].url = req[w].path /\ ~resp[w].proxied
      /\ h[w].pc = "done" =>
           h[w].url = IF resp[w].proxied THEN ClaimedRewrite(req[w].path)
                      ELSE req[w].path
      /\ (resp[w].proxied /\ AdminGated(req[w])) =>
           \E i \in 1..Len(lookups[w]) :
             lookups[w][i].phase = "admin" /\ lookups[w][i].ok

\* a request that passed the gate of its route handler, which read the external
\* path, and was forwarded with the prefix stripped
C26_Witness ==
  \E w \in GwWorkers :
    /\ h[w].seen = <<req[w].path>>
    /\ \E i \in 1..Len(lookups[w]) : lookups[w][i].phase = "auth" /\ lookups[w][i].ok
    /\ resp[w].proxied
    /\ h[w].url # req[w].path
    /\ h[w].url = ClaimedRewrite(req[w].path)

(***************************************************************************)
(* Claims about bulk invalidation (checked under SpecDS)                   *)
(***************************************************************************)
\* DeleteSessions has returned nil and no command of another client ran meanwhile
DSSucceededAlone == ds.pc = "done" /\ ds.err = "" /\ ~ds.interleaved

\* C27: when DeleteSessions(u) returns success and no other store operation
\* interleaves, no session whose record has user_id u remains in the store, and
\* every session of another user is still present with the same record.
C27_BulkInvalidation ==
  DSSucceededAlone =>
    /\ \A k \in DOMAIN store : store[k].val.user_id # ds.userID
    /\ \A k \in DOMAIN ds.before :
         ds.before[k].val.user_id # ds.userID =>
           k \in DOMAIN store /\ store[k] = ds.before[k]
    /\ DOMAIN store \subseteq DOMAIN ds.before
    /\ store = DeleteSessions(ds.before, ds.userID)

\* a successful call on a store with two sessions of the user and one of another
\* user: only the other user's session is left
C27_Witness ==
  /\ DSSucceededAlone
  /\ Cardinality({k \in DOMAIN ds.before : ds.before[k].val.user_id = ds.userID}) = 2
  /\ Cardinality(DOMAIN ds.before) = 3
  /\ Cardinality(DOMAIN store) = 1

(***************************************************************************)
(* Claims about the admin check (checked under Spec)                       *)
(***************************************************************************)
\* a ValidateSession call of the request did not return the session: the key was
\* missing (never stored, expired, deleted) or the store call failed
SomeLookupFailed(w) ==
  \E i \in 1..Len(lookups[w]) : ~lookups[w][i].found \/ lookups[w][i].fault

\* C28: on an admin-gated route 403 is returned only when a session exists for
\* the credential and its role is not admin; a request whose session is missing,
\* expired, deleted between the isAuthenticated and the isAdmin check, or
\* unreadable because of a store error is answered 401 and never 403 (a request
\* the Timeout layer has answered aside).
C28_ForbiddenOnlyWithSession ==
  \A w \in GwWorkers :
    (AdminGated(req[w]) /\ h[w].pc = "done" /\ ~h[w].timedOut) =>
      /\ resp[w].status = StatusForbidden =>
           /\ ~SomeLookupFailed(w)
           /\ SessionRole(w) # "admin"
      /\ SomeLookupFailed(w) => resp[w].status = StatusUnauthorized

(***************************************************************************)
(* Claims about the sliding-window rule (checked under SpecAllow)          *)
(***************************************************************************)
\* the input's timestamps, in order, from now - window on, and after it
RetainedFrom == SelectSeq(al.requests, LAMBDA t : t >= al.now - al.window)
RetainedAfter == SelectSeq(al.requests, LAMBDA t : t > al.now - al.window)

\* the outcome the rule gives when these timestamps remain
RuleOutcome(remaining) ==
  [ok |-> Len(remaining) < al.limit,
   requests |-> IF Len(remaining) < al.limit THEN remaining \o <<al.now>>
                ELSE remaining,
   kept |-> Len(remaining)]

\* C29 as stated: both limiters' Allow retain the timestamps t >= now - window,
\* the one equal to now - window included, admit iff fewer than limit remain, and
\* record the new timestamp only when the request is admitted.
C29_Original ==
  al.pc \in {"gateway", "shared"} =>
    al.out = RuleOutcome(RetainedFrom)

\* C29: both limiters' Allow retain exactly the timestamps t > now - window (one
\* equal to now - window is dropped), admit iff fewer than limit remain, and
\* record the new timestamp only when the request is admitted: a rejected call
\* leaves the retained timestamps and adds nothing.
C29_SlidingWindowBoundary ==
  al.pc \in {"gateway", "shared"} =>
    /\ al.out = RuleOutcome(RetainedAfter)
    /\ ~al.out.ok => \A i \in 1..Len(al.out.requests) :
                       \E j \in 1..Len(al.requests) : al.requests[j] = al.out.requests[i]
    /\ al.out.ok <=> Len(al.out.requests) = al.out.kept + 1

\* a limiter full of requests made exactly one window ago admits the call: the
\* requests at now - window were dropped
C29_Witness ==
  /\ al.pc = "shared"
  /\ al.limit >= 1
  /\ Len(al.requests) = al.limit
  /\ \A i \in 1..Len(al.requests) : al.requests[i] = al.now - al.window
  /\ al.out.ok
  /\ al.out.requests = <<al.now>>

(***************************************************************************)
(* Claims about the shared limiter's locking (checked under SpecMW)        *)
(***************************************************************************)
\* the worker is between the first and the last access of Allow to the map
InMwAllow(w) == mwCall[w].pc \in {"clean", "store", "check", "append", "put"}

\* the calls of a client admitted with a timestamp in the window that ends at t
MwAdmittedInWindow(c, t) ==
  Cardinality({i \in 1..Len(mw.admitted[c]) :
                 mw.admitted[c][i] > t - mw.window /\ mw.admitted[c][i] <= t})

\* C30: the shared middleware.RateLimiter guards its per-client state with an
\* exclusive lock: under any interleaving of concurrent Allow calls no two calls
\* are inside the accesses to the requests map together, and no more than
\* maxRequests calls of one client are admitted within one window.
C30_SharedLimiterExclusive ==
  /\ \A w1, w2 \in RLWorkers : (InMwAllow(w1) /\ InMwAllow(w2)) => w1 = w2
  /\ ~mw.fatal
  /\ \A c \in ClientIDs : \A t \in 0..MaxClock :
       MwAdmittedInWindow(c, t) <= mw.maxRequests

(***************************************************************************)
(* Claims about the tracing headers (checked under SpecPanic)              *)
(***************************************************************************)
\* the parties that write a response of the gateway chain
AllWriters == {"handler", "auth", "timeout", "recovery", "cors", "mux", "upstream"}

\* C31: every response that leaves the gateway chain (success, 401/403 of a gate,
\* CORS preflight, timeout, recovered panic, proxy error, relayed answer) carries
\* an X-Request-ID and an X-Correlation-ID header, and for a proxied request the
\* two IDs relayed upstream equal the ones on the client response.
C31_TracingHeaders ==
  \A w \in GwWorkers :
    /\ resp[w].status # 0 =>
         /\ resp[w].writers # <<>> /\ resp[w].writers[1] \in AllWriters
         /\ resp[w].request_id # ""
         /\ resp[w].correlation_id # ""
    /\ resp[w].upstream # NoUpstream =>
         /\ HGet(resp[w].upstream.headers, "X-Request-ID") = resp[w].request_id
         /\ HGet(resp[w].upstream.headers, "X-Correlation-ID") = resp[w].correlation_id

\* a request that came with an X-Request-ID of its own was relayed, and the ID
\* sent upstream is the one on the response
C31_Witness ==
  \E w \in GwWorkers :
    /\ HGet(req[w].headers, "X-Request-ID") # ""
    /\ resp[w].forward = "relayed"
    /\ resp[w].request_id # ""
    /\ HGet(resp[w].upstream.headers, "X-Request-ID") = resp[w].request_id
    /\ HGet(resp[w].upstream.headers, "X-Correlation-ID") = resp[w].correlation_id

(***************************************************************************)
(* Claims about concurrent resolutions (checked under SpecConc)            *)
(***************************************************************************)
\* C32: once DeleteSession(s) of a Logout has completed, s stays absent from the
\* store (no CreateSession makes s again: ids are never reissued); a resolution
\* that read the record before the delete and writes its touch back after it
\* does not re-create the session.
C32_DeletedStaysAbsent ==
  \A s \in DOMAIN issued : issued[s].loggedOut => s \notin DOMAIN store

\* a step leaves the session's record as it was, up to a last_seen that is not
\* earlier
TouchedOnly(before, after) ==
  /\ after.last_seen >= before.last_seen
  /\ [after EXCEPT !.last_seen = before.last_seen] = before

\* C33: the last_seen stored for a session never decreases: under every
\* interleaving of concurrent resolutions of one session each write leaves
\* last_seen greater than or equal to the value stored before it, and no other
\* field of the record is changed.
C33_LastSeenNeverDecreases ==
  [][\A s \in DOMAIN store \cap DOMAIN store' :
       TouchedOnly(store[s].val, store'[s].val)]_vars

(***************************************************************************)
(* Claims about the writers of a response (checked under Spec)             *)
(***************************************************************************)
\* C34: for every request through the Timeout middleware exactly one party
\* writes the response: once the timeout branch has written the RequestTimeout
\* envelope the abandoned handler never writes to the same ResponseWriter, and
\* once the handler has written the timeout branch does not.
C34_OneWriter ==
  \A w \in GwWorkers :
    InSeq(h[w].entered, "timeout") =>
      /\ Len(resp[w].writers) <= 1
      /\ Wrote(w, "timeout") => resp[w].writers = <<"timeout">>

\* the methods that do not change state
SafeMethods == {"GET", "HEAD", "OPTIONS"}

\* C35: no request to /api/v1/products* or /api/v1/categories* with a method
\* other than GET, HEAD and OPTIONS (PATCH included) is forwarded to the product
\* service unless the caller's session has the admin role.
C35_WritesNeedAdmin ==
  \A w \in GwWorkers :
    ( /\ req[w].method \notin SafeMethods
      /\ \/ HasPrefix(req[w].path, "/api/v1/products")
         \/ HasPrefix(req[w].path, "/api/v1/categories")
      /\ resp[w].proxied \/ resp[w].upstream # NoUpstream ) =>
      SessionRole(w) = "admin"

\* the decimal text of a user id
UserIDText(id) == CASE id = 1 -> "1" [] id = 2 -> "2" [] OTHER -> ""

\* C36: for every proxied request that passed the auth gate, the X-User-ID
\* header the upstream receives, if any, equals the user_id of the session
\* resolved for the request; a differing value of the client never reaches it.
C36_UpstreamUserIsSessionUser ==
  \A w \in GwWorkers :
    ( /\ resp[w].upstream # NoUpstream
      /\ lookups[w] # <<>>
      /\ lookups[w][1].found /\ lookups[w][1].ok
      /\ lookups[w][1].sid \in DOMAIN issued ) =>
      HGet(resp[w].upstream.headers, "X-User-ID")
        \in {"", UserIDText(issued[lookups[w][1].sid].data.id)}

\* C37: Router.extractSessionID, gateway.extractSessionIDFromRequest and
\* AuthHandler.extractSessionID return the same session id for every request
\* (also for an Authorization header that is exactly "Bearer " next to an
\* X-Session-ID header), so the session middleware and the route gates of one
\* request look up the same session.
C37_ExtractorsAgree ==
  \A w \in GwWorkers :
    /\ RouterExtractSessionID(req[w]) = ExtractSessionIDFromRequest(req[w])
    /\ AuthHandlerExtractSessionID(req[w]) = ExtractSessionIDFromRequest(req[w])
    /\ \A i \in 1..Len(lookups[w]) : lookups[w][i].sid = lookups[w][1].sid

(***************************************************************************)
(* Claims about AdminMiddleware (checked under SpecAdmin)                  *)
(***************************************************************************)
\* C38: AdminMiddleware behind SessionAuthMiddleware calls next for a request
\* whose session, as SessionAuthMiddleware stored it in the request context, has
\* the role admin, and answers 403 for every other request that reaches it.
C38_AdminMiddlewareAdmits ==
  (am.pc = "done" /\ am.status # StatusUnauthorized) =>
    LET stored == CtxUserSession(am.ctx, userSessionKey)
    IN  IF stored.ok /\ stored.val.role = "admin"
        THEN am.next /\ am.status = 0
        ELSE ~am.next /\ am.status = StatusForbidden

(***************************************************************************)
(* Claims about Login (checked under Spec)                                 *)
(***************************************************************************)
\* the statuses of Login's error answers
LoginErrorStatuses == {StatusBadRequest, StatusUnauthorized, StatusInternalServerError}

\* worker w serves a Login request
ServesLogin(w) == req[w].path = LoginPath /\ h[w].handler = "login"

\* a key was added to the session store or the value of a key was changed
StoreWritten ==
  \E s \in DOMAIN store' : s \notin DOMAIN store \/ store'[s] # store[s]

\* C39: a Login request that ends in one of Login's error answers (400, 401,
\* 500) sets no session_id cookie, and the step that writes such an answer
\* leaves the session store as it was; the store is written only by the step of
\* Login that creates the session and goes on to answer 200 with the cookie of
\* that session (an answer that comes second when the Timeout layer's 408 was
\* written first, and that is lost when the process ends on it).
C39_FailedLoginLeavesNoSession ==
  /\ [](\A w \in GwWorkers :
          (ServesLogin(w) /\ Wrote(w, "handler")
             /\ resp[w].status \in LoginErrorStatuses) =>
            resp[w].cookie = NoCookie /\ resp[w].session_id = "")
  /\ [][\A w \in GwWorkers :
          (ServesLogin(w) /\ req'[w] = req[w] /\ StoreWritten) =>
            /\ h[w].pc = "create"
            /\ \/ h'[w].pc = "fatal"
               \/ /\ resp'[w].writers # resp[w].writers
                  /\ resp'[w].writers[Len(resp'[w].writers)] = "handler"
                  /\ resp'[w].data = h[w].data
                  /\ resp'[w].status \in {StatusOK, StatusRequestTimeout}
                  /\ resp'[w].status = StatusRequestTimeout =>
                       Head(resp'[w].writers) = "timeout"
                  /\ resp'[w].status = StatusOK =>
                       /\ resp'[w].cookie.value \in DOMAIN store' \ DOMAIN store
                       /\ resp'[w].session_id = resp'[w].cookie.value]_vars

\* a Login whose CreateSession failed was answered 500 without a cookie while
\* the store holds no session
C39_Witness ==
  \E w \in GwWorkers :
    /\ ServesLogin(w)
    /\ h[w].pc = "done"
    /\ req[w].body = LoginBody("alice@example.com", "pw-alice")
    /\ resp[w].status = StatusInternalServerError
    /\ resp[w].writers = <<"handler">>
    /\ resp[w].cookie = NoCookie
    /\ store = <<>>

(***************************************************************************)
(* Claims about the locks of the rate limiter (checked under SpecRLFair)   *)
(***************************************************************************)
\* the positions of Allow at which the call holds rl.mutex only
HoldsLimiterOnly == {"lock_client"}

\* the positions of Allow at which the call holds rl.mutex and client.mutex
HoldsBoth == {"prune", "check", "append", "unlock"}

\* the locks are taken limiter-wide first, per-client second, and a call outside
\* Allow holds none
LocksInOrder ==
  \A w \in RLWorkers :
    /\ rlPc[w] \in HoldsLimiterOnly \cup HoldsBoth => rlMutex = w
    /\ rlPc[w] \in HoldsBoth => clMutex[rlArg[w]] = w
    /\ rlPc[w] \in {"idle", "lock_rl", "answer"} => rlMutex # w
    /\ rlPc[w] \notin HoldsBoth => \A c \in DOMAIN clMutex : clMutex[c] # w

\* no set of calls is stuck: while one is inside Allow, one of them can step
NoDeadlock ==
  (\E w \in RLWorkers : rlPc[w] # "idle") =>
    \E w \in RLWorkers :
      ENABLED (RLLock(w) \/ RLLockClient(w) \/ RLPrune(w) \/ RLCheck(w)
                 \/ RLAppend(w) \/ RLReturn(w) \/ RLAnswer(w))

\* the positions of a RateLimit call outside Allow: no call, or Allow has returned
\* and the answer is being written
OutsideAllow == {"idle", "answer"}

\* C40: every Allow call takes rl.mutex before client.mutex and has released
\* both when it returns, admitted or rejected; no set of concurrent calls, for
\* the same or for different clients, deadlocks; and under fair scheduling every
\* call returns.
C40_AllowTerminates ==
  /\ [](LocksInOrder /\ NoDeadlock)
  /\ \A w \in RLWorkers : (rlPc[w] \notin OutsideAllow) ~> (rlPc[w] \in OutsideAllow)

\* a rejected call has returned with both locks released, its 429 not yet
\* written, while another call for the same client waits for the limiter-wide
\* mutex
C40_Witness ==
  \E w, v \in RLWorkers :
    /\ w # v
    /\ rlPc[w] = "answer"
    /\ ~rlLast[w].ok
    /\ rlPc[v] = "lock_rl"
    /\ rlArg[v] = rlArg[w]
    /\ rlMutex = Free
    /\ clMutex[rlArg[w]] = Free

====
